---- MODULE Spec2Model ----
(***************************************************************************)
(* A model of IPtest.py (Cloudflare IP collector): the geolocation cache   *)
(* with its TTL and size limit, the region resolver (alone and in the      *)
(* threads of the region stage), the TCP probes, the batched orchestrator  *)
(* with its worker pool, the bandwidth test and the loop that calls it,    *)
(* the composite score, the latency-rank filter and the stages of main().  *)
(*                                                                         *)
(* Time is counted in whole hours (the unit of CONFIG["cache_ttl_hours"]). *)
(* Scores and bandwidths are fixed-point numbers in hundredths.            *)
(***************************************************************************)
EXTENDS Integers, Sequences, FiniteSets, TLC

VARIABLES
    pc,            \* position of the process (__main__ / main)
    cache_file,    \* content of Cache.json found at start
    region_cache,  \* the global region_cache: [shape, items]
    now,           \* datetime.now(), in hours
    ticks,         \* how often the clock has been advanced
    calls,         \* the last two get_ip_region calls (history)
    probe_ip,      \* the address handed to the probes: ip.split('.')
    test_ports,    \* CONFIG["test_ports"]
    connects,      \* what a connect to each configured port gives
    quick,         \* what quick_filter_ip did
    precise,       \* what test_ip_availability did
    orch,          \* test_ips_concurrently: its locals and what it observed
    score_call,    \* the last direct call of calculate_score: [in, out]
    bandwidth_results,  \* main(): the scored results, in append order
    rank,          \* latency_filter_ips: its arguments and its result
    ranked,        \* main(): available_ips after the final sort
    dedup,         \* main(): two collections and their unique_ips
    run,           \* main(): the stages run and the files written
    rc,            \* one get_ip_region call, request by request
    bw,            \* one test_ip_bandwidth_only call
    rg,            \* one get_regions_concurrently call
    wk,            \* the get_ip_region calls running in the pool's threads
    bs             \* main(): the loop of the bandwidth tests

cacheVars == <<pc, cache_file, region_cache, now, ticks, calls>>
probeVars == <<probe_ip, test_ports, connects, quick, precise>>

scoreVars == <<score_call, bandwidth_results, rank>>

stageVars == <<ranked, dedup, run, rc, bw, rg, wk, bs>>

vars == <<pc, cache_file, region_cache, now, ticks, calls,
          probe_ip, test_ports, connects, quick, precise, orch,
          score_call, bandwidth_results, rank,
          ranked, dedup, run, rc, bw, rg, wk, bs>>

-----------------------------------------------------------------------------
(* Program constants *)

\* CONFIG["cache_ttl_hours"]
CacheTtlHours == 168

\* the size limit of clean_expired_cache
MaxCacheEntries == 1000

(* Bounds of the model *)

\* the hour at which the process starts
StartTime == 192

\* the clock is advanced at most this often
MaxTicks == 2

\* main() calls get_ip_region at most this often
MaxCalls == 2

\* the largest persisted cache holds MaxCacheEntries + MaxExtra entries
MaxExtra == 2

\* the addresses that are resolved
IPs == {1, 2}

-----------------------------------------------------------------------------
(* Cache entries.                                                           *)
(*   kind   "entry"    a dict with 'timestamp' and 'region'                 *)
(*          "noregion" a dict with 'timestamp' but without 'region'        *)
(*          "legacy"   anything without a 'timestamp' key (old format)     *)
(*   tsKind "iso"      'YYYY-MM-DDTHH:..', what datetime.isoformat() writes *)
(*          "isospace" 'YYYY-MM-DD HH:..', also accepted by fromisoformat   *)
(*          "empty"    the empty string                                     *)
(*          "bad"      a string fromisoformat rejects                       *)
(*          "none"     no timestamp (legacy)                                *)
(*   t      the time the timestamp denotes, in hours (0 when it has none)   *)

MkEntry(ip, kind, region, tsKind, t) ==
    [ip |-> ip, kind |-> kind, region |-> region, tsKind |-> tsKind, t |-> t]

HasTimestampKey(e) == e.kind \in {"entry", "noregion"}

\* datetime.fromisoformat(timestamp): TRUE when it parses
Parses(e) == e.tsKind \in {"iso", "isospace"}

EmptyDict == [shape |-> "dict", items |-> <<>>]

HasKey(cache, ip) == \E i \in 1..Len(cache.items) : cache.items[i].ip = ip

Lookup(cache, ip) ==
    cache.items[CHOOSE i \in 1..Len(cache.items) : cache.items[i].ip = ip]

\* region_cache[ip] = {...}: an existing key keeps its place, a new one is
\* appended (dict insertion order)
Put(cache, e) ==
    IF HasKey(cache, e.ip)
    THEN [cache EXCEPT !.items =
             [i \in 1..Len(cache.items) |->
                 IF cache.items[i].ip = e.ip THEN e ELSE cache.items[i]]]
    ELSE [cache EXCEPT !.items = Append(cache.items, e)]

-----------------------------------------------------------------------------
(* The values of the variables of a component that does not take part in  *)
(* a run                                                                   *)

\* the record of a probe that has not been called
NotRun == [done |-> FALSE, reachable |-> FALSE, delay |-> 0,
           sockets |-> 0, attempted |-> <<>>]

ProbeIdle ==
    /\ probe_ip = <<>>
    /\ test_ports = [kind |-> "list", ports |-> <<>>]
    /\ connects = <<>>
    /\ quick = NotRun
    /\ precise = NotRun

CacheIdle ==
    /\ cache_file = [shape |-> "missing", items |-> <<>>]
    /\ region_cache = EmptyDict
    /\ now = StartTime
    /\ ticks = 0
    /\ calls = <<>>

NoScoreCall == [called |-> FALSE,
                in |-> [min_delay |-> 0, avg_delay |-> 0, bandwidth |-> 0,
                        stability |-> 0],
                out |-> 0]

NoRanking == [results |-> <<>>, percentage |-> 30, done |-> FALSE,
              out |-> <<>>]

ScoreIdle ==
    /\ score_call = NoScoreCall
    /\ bandwidth_results = <<>>
    /\ rank = NoRanking

OrchIdle ==
    orch = [at |-> "idle", n |-> 0, batch_size |-> 10, max_workers |-> 15,
            i |-> 0, queued |-> {}, running |-> {},
            pending |-> {}, seen |-> <<>>, available_ips |-> <<>>,
            batches |-> <<>>, deadline_hit |-> FALSE]

\* main() has not sorted its results
NotSorted == [done |-> FALSE, list |-> <<>>]

\* nothing has been collected
NoDedup == [all_ips |-> <<<<>>, <<>>>>, done |-> <<FALSE, FALSE>>,
            unique_ips |-> <<<<>>, <<>>>>]

\* main() has not been entered
NoRun == [advanced_mode |-> TRUE, deleted |-> {},
          unique_ips |-> {}, filtered_ips |-> {},
          latency_filtered_ips |-> {}, tcp_ping_ips |-> {},
          bandwidth_results |-> {}, stages |-> {}, files |-> {},
          cache_puts |-> FALSE]

\* get_ip_region has not been called
NoCall == [at |-> "idle", ip |-> 0, hit |-> FALSE, gets |-> <<>>,
           attempts |-> <<>>, writes |-> <<>>, val |-> ""]

\* test_ip_bandwidth_only has not been called
NoBandwidthTest == [at |-> "idle", rounds |-> <<>>, best_speed |-> 0,
                    best_latency |-> 0, probe_calls |-> 0,
                    contacted |-> {},
                    success |-> FALSE, bandwidth |-> 0, latency |-> 0]

\* get_regions_concurrently has not been called
NoRegionStage == [at |-> "idle", ips |-> <<>>, outcome |-> <<>>,
                  results |-> <<>>]

\* no get_ip_region call is running in a thread
NoWorkers == [initial |-> EmptyDict, written |-> {}, th |-> <<>>]

\* main() has not reached its bandwidth tests
NoBandwidthStage == [at |-> "idle", n |-> 0, i |-> 0, running |-> {},
                     called |-> {}, bandwidth_results |-> <<>>]

StageIdle ==
    /\ ranked = NotSorted
    /\ dedup = NoDedup
    /\ run = NoRun
    /\ rc = NoCall
    /\ bw = NoBandwidthTest
    /\ rg = NoRegionStage
    /\ wk = NoWorkers
    /\ bs = NoBandwidthStage

-----------------------------------------------------------------------------
(* load_region_cache *)

\* What Cache.json holds.
\*   "missing"      no file
\*   "unparseable"  json.load raises
\*   "scalar"       JSON null, number or boolean: len() raises TypeError
\*   "list", "str"  a JSON array or string: len() succeeds
\*   "dict"         a JSON object, items in file order
load_region_cache(file) ==
    CASE file.shape = "missing"     -> EmptyDict
      [] file.shape = "unparseable" -> EmptyDict
      [] file.shape = "scalar"      -> EmptyDict
      [] OTHER                      -> file

-----------------------------------------------------------------------------
(* is_cache_valid and clean_expired_cache *)

\* is_cache_valid(timestamp, ttl_hours): "raise" is the ValueError of
\* datetime.fromisoformat
is_cache_valid_inclusive(e, nowv, ttl_hours) ==
    IF e.tsKind \in {"empty", "none"} THEN "invalid"
    ELSE IF ~Parses(e) THEN "raise"
    ELSE IF nowv - e.t <= ttl_hours THEN "valid" ELSE "invalid"

is_cache_valid(e, nowv, ttl_hours) ==
    IF e.tsKind \in {"empty", "none"} THEN "invalid"
    ELSE IF ~Parses(e) THEN "raise"
    ELSE IF nowv - e.t < ttl_hours THEN "valid" ELSE "invalid"

\* The key clean_expired_cache sorts by: the timestamp STRING, '' for an
\* entry without one.  Strings compare character by character: the date,
\* then the separator (' ' < 'T'), then the hour.
SortKey(e) ==
    IF ~HasTimestampKey(e) THEN -1
    ELSE ((e.t \div 24) * 48) + (IF e.tsKind = "iso" THEN 24 ELSE 0) + (e.t % 24)

\* the loop over region_cache.items() of clean_expired_cache raises when
\* region_cache has no items() or a timestamp does not parse
CleanRaises(cache) ==
    \/ cache.shape # "dict"
    \/ \E i \in 1..Len(cache.items) :
          HasTimestampKey(cache.items[i]) /\ ~Parses(cache.items[i])

Expired(e, nowv) == HasTimestampKey(e) /\ nowv - e.t >= CacheTtlHours

EvictOldest_one_short(items, limit) ==
    IF Len(items) <= limit + 1 THEN items
    ELSE SubSeq(items, Len(items) - limit, Len(items))

\* sorted(region_cache.items(), key=...)[:items_to_remove] are deleted;
\* sorted is stable, so equal keys leave in dict order
EvictOldest(items, limit) ==
    IF Len(items) <= limit THEN items
    ELSE LET n == Len(items)
             items_to_remove == n - limit
             key == [i \in 1..n |-> SortKey(items[i])]
             Rank(i) == Cardinality({j \in 1..n :
                            key[j] < key[i] \/ (key[j] = key[i] /\ j < i)})
             indexed == [i \in 1..n |-> [e |-> items[i], i |-> i]]
             Stays(x) == Rank(x.i) >= items_to_remove
             left == SelectSeq(indexed, Stays)
         IN  [i \in 1..Len(left) |-> left[i].e]

clean_expired_cache(cache, nowv) ==
    LET Fresh(e) == ~Expired(e, nowv)
    IN  [cache EXCEPT !.items = EvictOldest(SelectSeq(cache.items, Fresh),
                                            MaxCacheEntries)]

-----------------------------------------------------------------------------
(* get_ip_region *)

\* What one geolocation provider answers to one request.
\*   "ok"        status 200 / status 'success', with the country code given
\*               (possibly empty)
\*   "fail"      any other status
\*   "exception" timeout, connection error, unparseable body
ProviderCodes == {"jp", ""}

\* str.upper() on the codes the providers send
Upper(c) == IF c = "jp" THEN "JP" ELSE c

ProviderOutcomes ==
    {[st |-> "ok", code |-> c] : c \in ProviderCodes}
      \cup {[st |-> "fail", code |-> ""], [st |-> "exception", code |-> ""]}

ProviderSucceeds_any_code(p) == p.st = "ok"

\* a provider's answer is used: a success status and a country code that is
\* not empty
ProviderSucceeds(p) == p.st = "ok" /\ p.code # ""

\* the cache check at the head of get_ip_region:
\*   "hit"   a cached value is returned
\*   "miss"  the providers are asked
\*   "raise" ValueError of fromisoformat, or KeyError of cached_data['region']
CacheCheck(cache, ip, nowv) ==
    IF ~HasKey(cache, ip) THEN "miss"
    ELSE LET cached_data == Lookup(cache, ip)
             valid == is_cache_valid(cached_data, nowv, CacheTtlHours)
         IN  IF HasTimestampKey(cached_data)
             THEN IF valid = "raise" THEN "raise"
                  ELSE IF valid = "valid"
                       THEN IF cached_data.kind = "noregion"
                            THEN "raise" ELSE "hit"
                       ELSE "miss"
             ELSE "hit"

\* the region written and returned after a miss
ResolvedRegion(p1, p2) ==
    IF ProviderSucceeds(p1) THEN Upper(p1.code)
    ELSE IF ProviderSucceeds(p2) THEN Upper(p2.code)
    ELSE "Unknown"

\* the number of session.get calls after a miss
RequestsOnMiss(p1) == IF ProviderSucceeds(p1) THEN 1 ELSE 2

WriteThrough_success_only(cache, ip, nowv, p1, p2) ==
    IF ProviderSucceeds(p1) \/ ProviderSucceeds(p2)
    THEN Put(cache, MkEntry(ip, "entry", ResolvedRegion(p1, p2), "iso", nowv))
    ELSE cache

\* the cache after a miss: every path writes region_cache[ip]
WriteThrough(cache, ip, nowv, p1, p2) ==
    Put(cache, MkEntry(ip, "entry", ResolvedRegion(p1, p2), "iso", nowv))

\* get_ip_region(ip): what it returns (or that it raises), how many requests
\* it sends, and the cache it leaves
get_ip_region(cache, ip, nowv, p1, p2) ==
    LET check == CacheCheck(cache, ip, nowv)
    IN  CASE check = "hit" ->
               [res |-> "return", val |-> Lookup(cache, ip).region,
                net |-> 0, cache |-> cache]
          [] check = "raise" ->
               [res |-> "raise", val |-> "", net |-> 0, cache |-> cache]
          [] OTHER ->
               [res |-> "return", val |-> ResolvedRegion(p1, p2),
                net |-> RequestsOnMiss(p1),
                cache |-> WriteThrough(cache, ip, nowv, p1, p2)]

-----------------------------------------------------------------------------
(* The TCP probes: quick_filter_ip and test_ip_availability *)

\* An address is the list ip.split('.') gives; each part is one of these
\* strings.
Tokens == {"0", "00", "255", "256", "-1", "+4", " 4", "1_0", "abc", ""}

\* the part consists of ASCII digits only
PlainDigits(tok) == tok \in {"0", "00", "255", "256"}

\* int(part) returns a number (it accepts a sign, surrounding blanks and
\* underscores between digits); otherwise it raises ValueError
IntParses(tok) == tok \in {"0", "00", "255", "256", "-1", "+4", " 4", "1_0"}

IntValue(tok) ==
    CASE tok = "0"   -> 0
      [] tok = "00"  -> 0
      [] tok = "255" -> 255
      [] tok = "256" -> 256
      [] tok = "-1"  -> -1
      [] tok = "+4"  -> 4
      [] tok = " 4"  -> 4
      [] tok = "1_0" -> 10
      [] OTHER       -> 0

\* the validation at the head of both probes: TRUE when the probe goes on
PassesValidation(ip) ==
    /\ Len(ip) = 4
    /\ \A i \in 1..Len(ip) :
          IntParses(ip[i]) /\ 0 <= IntValue(ip[i]) /\ IntValue(ip[i]) <= 255

\* connect_ex((ip, port)) takes the address as a host name: a string that is
\* not a dotted quad fails name resolution (socket.gaierror)
IsDottedQuad(ip) ==
    /\ Len(ip) = 4
    /\ \A i \in 1..Len(ip) : PlainDigits(ip[i])

\* isinstance(port, int) and 1 <= port <= 65535; a port that is not an int
\* is modelled as [int |-> FALSE]
ValidPort(port) == port.int /\ 1 <= port.v /\ port.v <= 65535

\* What one connect attempt does: "refused" (connect_ex # 0), "error"
\* (socket.timeout, socket.error, OSError) or a connection after d tenths
\* of a millisecond.
ConnectOutcomes ==
    {[st |-> "refused", d |-> 0], [st |-> "error", d |-> 0]}
      \cup {[st |-> "connected", d |-> d] :
               d \in {1500, 1994, 1995, 2000, 3000}}

\* delay = round((time.time() - start_time) * 1000): tenths of a millisecond
\* to whole milliseconds, a tie goes to the even number
RoundMs(tenths) ==
    LET q == tenths \div 10
        r == tenths % 10
    IN  IF r < 5 THEN q
        ELSE IF r > 5 THEN q + 1
        ELSE IF q % 2 = 0 THEN q ELSE q + 1

IsFast_inclusive(delay) == delay <= 200

\* if delay < 200: the probe returns at once
IsFast(delay) == delay < 200

OutcomeFor(ip, o) ==
    IF IsDottedQuad(ip) THEN o ELSE [st |-> "error", d |-> 0]

\* the loop over the ports, from port number i on, shared by both probes
RECURSIVE ScanPorts(_, _, _, _, _)
ScanPorts(ip, ports, outs, i, acc) ==
    IF i > Len(ports)
    THEN IF acc.success_count > 0
         THEN [acc EXCEPT !.done = TRUE, !.reachable = TRUE,
                          !.delay = acc.min_delay]
         ELSE [acc EXCEPT !.done = TRUE]
    ELSE IF ~ValidPort(ports[i])
    THEN ScanPorts(ip, ports, outs, i + 1, acc)
    ELSE LET o == OutcomeFor(ip, outs[i])
             opened == [acc EXCEPT !.sockets = @ + 1,
                                   !.attempted = Append(@, ports[i].v)]
             delay == RoundMs(o.d)
         IN  IF o.st = "connected"
             THEN IF IsFast(delay)
                  THEN [opened EXCEPT !.done = TRUE, !.reachable = TRUE,
                                      !.delay = delay]
                  ELSE ScanPorts(ip, ports, outs, i + 1,
                          [opened EXCEPT
                              !.min_delay = IF acc.success_count = 0 THEN delay
                                            ELSE IF delay < @ THEN delay ELSE @,
                              !.success_count = @ + 1])
             ELSE ScanPorts(ip, ports, outs, i + 1, opened)

ScanStart == [done |-> FALSE, reachable |-> FALSE,
              delay |-> 0, sockets |-> 0, attempted |-> <<>>,
              min_delay |-> 0, success_count |-> 0]

Outcome(acc) == [f \in DOMAIN NotRun |-> acc[f]]

Rejected == [NotRun EXCEPT !.done = TRUE]

\* quick_filter_ip(ip): it iterates whatever sequence is configured
quick_filter_ip(ip, config, outs) ==
    IF ~PassesValidation(ip) THEN Rejected
    ELSE Outcome(ScanPorts(ip, config.ports, outs, 1, ScanStart))

\* test_ip_availability(ip): gives up when the configured ports are empty
\* or not a list
test_ip_availability(ip, config, outs) ==
    IF ~PassesValidation(ip) THEN Rejected
    ELSE IF config.ports = <<>> \/ config.kind # "list" THEN Rejected
    ELSE Outcome(ScanPorts(ip, config.ports, outs, 1, ScanStart))

\* the number of configured ports in the model
MaxPorts == 2

PortValues == {[int |-> TRUE, v |-> 443], [int |-> TRUE, v |-> 2053],
               [int |-> TRUE, v |-> 0], [int |-> FALSE, v |-> 0]}

PortLists == UNION {[1..n -> PortValues] : n \in 0..MaxPorts}

PortConfigs ==
    {[kind |-> "list", ports |-> ps] : ps \in PortLists}
      \cup {[kind |-> "tuple", ports |-> <<[int |-> TRUE, v |-> 443]>>]}

Addresses ==
    {<<a, "0", "255", d>> : a \in Tokens, d \in {"0", "+4", "256"}}
      \cup {<<"0", "0", "0">>, <<"0", "0", "0", "0", "0">>}

\* What the network does when the address is connected to on each of the
\* configured ports, the same for both probes; an address no probe connects
\* to has no outcomes
ConnectsFor(ip, config) ==
    IF PassesValidation(ip) /\ IsDottedQuad(ip)
    THEN [1..Len(config.ports) -> ConnectOutcomes]
    ELSE {[i \in 1..Len(config.ports) |-> [st |-> "error", d |-> 0]]}

InitProbe ==
    /\ pc = "idle"
    /\ CacheIdle
    /\ OrchIdle
    /\ ScoreIdle
    /\ StageIdle
    /\ probe_ip \in Addresses
    /\ test_ports \in PortConfigs
    /\ connects \in ConnectsFor(probe_ip, test_ports)
    /\ quick = NotRun
    /\ precise = NotRun

\* one call of quick_filter_ip(probe_ip)
QuickFilterIp(outs) ==
    /\ ~quick.done
    /\ quick' = quick_filter_ip(probe_ip, test_ports, outs)
    /\ UNCHANGED <<probe_ip, test_ports, connects, precise>>
    /\ UNCHANGED <<cacheVars, orch, scoreVars, stageVars>>

\* one call of test_ip_availability(probe_ip)
TestIpAvailability(outs) ==
    /\ ~precise.done
    /\ precise' = test_ip_availability(probe_ip, test_ports, outs)
    /\ UNCHANGED <<probe_ip, test_ports, connects, quick>>
    /\ UNCHANGED <<cacheVars, orch, scoreVars, stageVars>>

NextProbe ==
    \/ QuickFilterIp(connects)
    \/ TestIpAvailability(connects)

SpecProbe == InitProbe /\ [][NextProbe]_vars

\* the address is not four dot-separated decimal octets in [0,255]
Malformed(ip) ==
    ~(/\ Len(ip) = 4
      /\ \A i \in 1..Len(ip) :
            PlainDigits(ip[i]) /\ IntValue(ip[i]) \in 0..255)

\* C4 as stated: for a malformed address both probes return (False, 0)
\* and create no socket.
C4_MalformedNoSocket ==
    Malformed(probe_ip) =>
        /\ quick.done => (~quick.reachable /\ quick.delay = 0
                          /\ quick.sockets = 0)
        /\ precise.done => (~precise.reachable /\ precise.delay = 0
                            /\ precise.sockets = 0)

-----------------------------------------------------------------------------
(* The batched orchestrator test_ips_concurrently, as main() calls it for  *)
(* the TCP ping stage.  The addresses are numbered 1..n in list order.     *)

\* the largest list handed to the orchestrator
MaxItems == 4

\* the values of CONFIG["batch_size"] that are tried (10 is the shipped one)
BatchSizes == {1, 2, 10}

\* the values of max_workers that are tried (15 is the shipped one)
WorkerCounts == {1, 2, 15}

\* What the operation of one item gives when its future is read:
\* (True, delay), (False, 0), or an exception.
OperationResults == {"available", "unavailable", "raise"}

\* the delay an available address reports, in ms
DelayOf(k) == 10 * k

InitOrch ==
    /\ pc = "tcp_ping"
    /\ CacheIdle
    /\ ProbeIdle
    /\ ScoreIdle
    /\ StageIdle
    /\ \E n \in 0..MaxItems, b \in BatchSizes, w \in WorkerCounts :
          orch = [at |-> "loop", n |-> n, batch_size |-> b,
                  max_workers |-> w, i |-> 0,
                  queued |-> {}, running |-> {},
                  pending |-> {}, seen |-> [k \in 1..n |-> "none"],
                  available_ips |-> <<>>, batches |-> <<>>,
                  deadline_hit |-> FALSE]

\* ips[i:i+batch_size]
BatchItems(n, i, batch_size) ==
    {k \in 1..n : i < k /\ k <= i + batch_size}

\* for i in range(0, len(ips), batch_size): the batch is submitted to a new
\* ThreadPoolExecutor
SubmitBatch ==
    /\ pc = "tcp_ping"
    /\ orch.at = "loop"
    /\ orch.i < orch.n
    /\ orch' = [orch EXCEPT
                  !.at = "collect",
                  !.queued = @ \cup BatchItems(orch.n, orch.i,
                                               orch.batch_size),
                  !.pending = BatchItems(orch.n, orch.i, orch.batch_size),
                  !.batches = Append(@, BatchItems(orch.n, orch.i,
                                                   orch.batch_size))]
    /\ UNCHANGED <<cacheVars, probeVars, scoreVars, stageVars>>

WorkerFree_always(running, max_workers) == TRUE

\* the pool of ThreadPoolExecutor(max_workers=max_workers) has a thread
\* that is not running an operation
WorkerFree(running, max_workers) == Cardinality(running) < max_workers

\* a thread of the pool takes the next submitted operation from the work
\* queue (in the order of submission) and starts test_ip_availability
StartOperation ==
    /\ pc = "tcp_ping"
    /\ orch.at \in {"collect", "shutdown"}
    /\ orch.queued # {}
    /\ WorkerFree(orch.running, orch.max_workers)
    /\ LET k == CHOOSE q \in orch.queued : \A o \in orch.queued : q <= o
       IN  orch' = [orch EXCEPT !.queued = @ \ {k},
                                !.running = @ \cup {k}]
    /\ UNCHANGED <<cacheVars, probeVars, scoreVars, stageVars>>

\* the operation of item k ends: its future is done
FinishOperation(k) ==
    /\ pc = "tcp_ping"
    /\ orch.at \in {"collect", "shutdown"}
    /\ k \in orch.running
    /\ orch' = [orch EXCEPT !.running = @ \ {k}]
    /\ UNCHANGED <<cacheVars, probeVars, scoreVars, stageVars>>

AfterResult_propagates(result) ==
    IF result = "raise" THEN "aborted" ELSE "collect"

\* the position after the body of the as_completed loop has handled one
\* future: the try/except around future.result() catches every Exception
AfterResult(result) == "collect"

\* the list of results after one future has been handled
Collected(available_ips, k, result) ==
    IF result = "available"
    THEN Append(available_ips, [ip |-> k, delay |-> DelayOf(k)])
    ELSE available_ips

\* as_completed yields the future of item k within the 30 seconds, and the
\* loop body handles its result
ObserveResult(k, result) ==
    /\ pc = "tcp_ping"
    /\ orch.at = "collect"
    /\ k \in orch.pending
    /\ k \notin orch.queued \cup orch.running
    /\ orch' = [orch EXCEPT
                  !.at = AfterResult(result),
                  !.pending = @ \ {k},
                  !.seen[k] = result,
                  !.available_ips = Collected(@, k, result)]
    /\ UNCHANGED <<cacheVars, probeVars, scoreVars, stageVars>>

\* the 30 seconds of as_completed(..., timeout=30) pass while futures are
\* outstanding: the iterator raises TimeoutError outside the try block of the
\* loop body and reaches the end of the with block
DeadlineExpires ==
    /\ pc = "tcp_ping"
    /\ orch.at = "collect"
    /\ orch.pending # {}
    /\ orch' = [orch EXCEPT !.at = "shutdown", !.deadline_hit = TRUE]
    /\ UNCHANGED <<cacheVars, probeVars, scoreVars, stageVars>>

\* the with block is left by the TimeoutError: Executor.__exit__ calls
\* shutdown(wait=True), which returns when every submitted operation has
\* run; then the exception leaves test_ips_concurrently and main(), and
\* __main__ logs it
LeaveOnTimeout ==
    /\ pc = "tcp_ping"
    /\ orch.at = "shutdown"
    /\ orch.queued = {}
    /\ orch.running = {}
    /\ orch' = [orch EXCEPT !.at = "aborted"]
    /\ pc' = "failed"
    /\ UNCHANGED <<cache_file, region_cache, now, ticks, calls, probeVars,
                   scoreVars, stageVars>>

\* every future of the batch has been handled: the executor is shut down and
\* the loop goes to the next batch
EndBatch ==
    /\ pc = "tcp_ping"
    /\ orch.at = "collect"
    /\ orch.pending = {}
    /\ orch' = [orch EXCEPT !.at = "loop", !.i = @ + orch.batch_size]
    /\ UNCHANGED <<cacheVars, probeVars, scoreVars, stageVars>>

\* the loop is over: test_ips_concurrently returns available_ips to main()
ReturnAvailable ==
    /\ pc = "tcp_ping"
    /\ orch.at = "loop"
    /\ orch.i >= orch.n
    /\ orch' = [orch EXCEPT !.at = "returned"]
    /\ pc' = "bandwidth"
    /\ UNCHANGED <<cache_file, region_cache, now, ticks, calls, probeVars,
                   scoreVars, stageVars>>

\* main(): the bandwidth tests, the scoring and the result files
BandwidthStage ==
    /\ pc = "bandwidth"
    /\ pc' = "save"
    /\ UNCHANGED <<cache_file, region_cache, now, ticks, calls, probeVars,
                   orch, scoreVars, stageVars>>

\* main(): save_region_cache() and the closing statistics
SaveAndFinish ==
    /\ pc = "save"
    /\ pc' = "done"
    /\ UNCHANGED <<cache_file, region_cache, now, ticks, calls, probeVars,
                   orch, scoreVars, stageVars>>

NextOrch ==
    \/ SubmitBatch
    \/ StartOperation
    \/ \E k \in 1..MaxItems : FinishOperation(k)
    \/ \E k \in 1..MaxItems, r \in OperationResults : ObserveResult(k, r)
    \/ DeadlineExpires
    \/ LeaveOnTimeout
    \/ EndBatch
    \/ ReturnAvailable
    \/ BandwidthStage
    \/ SaveAndFinish

SpecOrch == InitOrch /\ [][NextOrch]_vars

-----------------------------------------------------------------------------
(* calculate_score.  Delays are whole milliseconds; bandwidths and the     *)
(* three part scores are counted in hundredths, the returned score in      *)
(* tenths.                                                                 *)

delay_score_exclusive(min_delay) ==
    IF min_delay < 50 THEN 4000
    ELSE IF min_delay <= 100 THEN 3500
    ELSE IF min_delay <= 200 THEN 3000
    ELSE IF min_delay <= 300 THEN 2500
    ELSE IF 2000 - (min_delay - 300) * 10 > 0
         THEN 2000 - (min_delay - 300) * 10 ELSE 0

\* delay_score, in hundredths of a point
delay_score(min_delay) ==
    IF min_delay <= 50 THEN 4000
    ELSE IF min_delay <= 100 THEN 3500
    ELSE IF min_delay <= 200 THEN 3000
    ELSE IF min_delay <= 300 THEN 2500
    ELSE IF 2000 - (min_delay - 300) * 10 > 0
         THEN 2000 - (min_delay - 300) * 10 ELSE 0

bandwidth_score_linear_below_ten(bandwidth) ==
    IF bandwidth >= 5000 THEN 3000
    ELSE IF bandwidth >= 2000 THEN 2500
    ELSE IF bandwidth >= 1000 THEN 2000
    ELSE IF bandwidth * 3 > 0 THEN bandwidth * 3 ELSE 0

\* bandwidth_score, in hundredths of a point, of a bandwidth in hundredths
\* of a Mbps
bandwidth_score(bandwidth) ==
    IF bandwidth >= 5000 THEN 3000
    ELSE IF bandwidth >= 2000 THEN 2500
    ELSE IF bandwidth >= 1000 THEN 2000
    ELSE IF bandwidth >= 500 THEN 1500
    ELSE IF bandwidth * 3 > 0 THEN bandwidth * 3 ELSE 0

stability_score_uncapped(stability) == stability * 30

\* stability_score = min(30, stability * 0.3), in hundredths of a point
stability_score(stability) ==
    IF stability * 30 < 3000 THEN stability * 30 ELSE 3000

\* round(total_score, 1): hundredths to tenths, a tie goes to the even tenth
Round1(hundredths) ==
    LET q == hundredths \div 10
        r == hundredths % 10
    IN  IF r < 5 THEN q
        ELSE IF r > 5 THEN q + 1
        ELSE IF q % 2 = 0 THEN q ELSE q + 1

\* calculate_score(min_delay, avg_delay, bandwidth, stability), in tenths
calculate_score(min_delay, avg_delay, bandwidth, stability) ==
    Round1(delay_score(min_delay) + bandwidth_score(bandwidth)
             + stability_score(stability))

\* the arguments calculate_score is called with
Delays == {0, 50, 51, 100, 101, 200, 201, 300, 301, 400, 499, 500, 501}

Bandwidths == {0, 1, 5, 33, 499, 500, 999, 1000, 1999, 2000, 4999, 5000, 6000}

Stabilities == {0, 1, 99, 100, 101, 150}

\* avg_delay is an argument calculate_score does not read
AvgDelays == {50, 400}

\* what the TCP ping and the bandwidth test report for a candidate in main()
PingDelays == {10, 600}

MeasuredBandwidths == {0, 6000}

\* the scored results main() collects
MaxRanked == 2

InitScore ==
    /\ pc = "idle"
    /\ CacheIdle
    /\ ProbeIdle
    /\ OrchIdle
    /\ ScoreIdle
    /\ StageIdle

\* a call calculate_score(min_delay, avg_delay, bandwidth, stability)
CalculateScore(min_delay, avg_delay, bandwidth, stability) ==
    /\ ~score_call.called
    /\ score_call' =
          [called |-> TRUE,
           in |-> [min_delay |-> min_delay, avg_delay |-> avg_delay,
                   bandwidth |-> bandwidth, stability |-> stability],
           out |-> calculate_score(min_delay, avg_delay, bandwidth, stability)]
    /\ UNCHANGED <<cacheVars, probeVars, orch, bandwidth_results, rank>>
    /\ UNCHANGED stageVars

\* main(): one round of the bandwidth loop for a candidate the bandwidth
\* test reported as usable; the stability is the constant 100
ScoreCandidate(delay, bandwidth) ==
    /\ ~ranked.done
    /\ bandwidth_results' = Append(bandwidth_results,
          [ip |-> Len(bandwidth_results) + 1,
           min_delay |-> delay, avg_delay |-> delay, bandwidth |-> bandwidth,
           score |-> calculate_score(delay, delay, bandwidth, 100)])
    /\ UNCHANGED <<cacheVars, probeVars, orch, score_call, rank>>
    /\ UNCHANGED stageVars

NextScore ==
    \/ \E d \in Delays, a \in AvgDelays, b \in Bandwidths, st \in Stabilities :
          CalculateScore(d, a, b, st)
    \/ \E d \in PingDelays, b \in MeasuredBandwidths :
          Len(bandwidth_results) < MaxRanked /\ ScoreCandidate(d, b)

SpecScore == InitScore /\ [][NextScore]_vars

-----------------------------------------------------------------------------
(* main(): the final sort of the scored results.  available_ips is the    *)
(* list bandwidth_results itself; bandwidth_results is kept here as the    *)
(* record of the order in which the results were appended.                 *)

ComesBefore_ties_too(x, y) == x.score >= y.score

\* list.sort(key=lambda x: x[5], reverse=True) moves x in front of y, which
\* was appended earlier, only when the score of x is strictly higher
ComesBefore(x, y) == x.score > y.score

RECURSIVE InsertByScore(_, _)
InsertByScore(sorted, x) ==
    IF sorted = <<>> THEN <<x>>
    ELSE IF ComesBefore(x, Head(sorted)) THEN <<x>> \o sorted
    ELSE <<Head(sorted)>> \o InsertByScore(Tail(sorted), x)

RECURSIVE SortedByScore(_)
SortedByScore(results) ==
    IF results = <<>> THEN <<>>
    ELSE InsertByScore(SortedByScore(SubSeq(results, 1, Len(results) - 1)),
                       results[Len(results)])

\* main(): if available_ips: available_ips.sort(...)
SortAvailableIps ==
    /\ ~ranked.done
    /\ bandwidth_results # <<>>
    /\ ranked' = [done |-> TRUE, list |-> SortedByScore(bandwidth_results)]
    /\ UNCHANGED <<cacheVars, probeVars, orch, scoreVars>>
    /\ UNCHANGED <<dedup, run, rc, bw, rg, wk, bs>>

\* the scored results that are sorted
MaxSorted == 3

NextRanking ==
    \/ \E d \in PingDelays, b \in MeasuredBandwidths :
          Len(bandwidth_results) < MaxSorted /\ ScoreCandidate(d, b)
    \/ SortAvailableIps

SpecRanking == InitScore /\ [][NextRanking]_vars

-----------------------------------------------------------------------------
(* latency_filter_ips *)

\* sorted(ip_results, key=lambda x: x[1]): a stable sort by min_delay
RECURSIVE InsertByDelay(_, _)
InsertByDelay(sorted, x) ==
    IF sorted = <<>> THEN <<x>>
    ELSE IF x.min_delay < Head(sorted).min_delay THEN <<x>> \o sorted
    ELSE <<Head(sorted)>> \o InsertByDelay(Tail(sorted), x)

RECURSIVE SortedByDelay(_)
SortedByDelay(results) ==
    IF results = <<>> THEN <<>>
    ELSE InsertByDelay(SortedByDelay(SubSeq(results, 1, Len(results) - 1)),
                       results[Len(results)])

keep_count_no_floor_of_one(n, percentage) == (n * percentage) \div 100

\* keep_count = max(1, int(len(sorted_results) * percentage / 100))
keep_count(n, percentage) ==
    IF (n * percentage) \div 100 > 1 THEN (n * percentage) \div 100 ELSE 1

latency_filter_ips(ip_results, percentage) ==
    IF ip_results = <<>> THEN <<>>
    ELSE LET sorted_results == SortedByDelay(ip_results)
             k == keep_count(Len(sorted_results), percentage)
         IN  SubSeq(sorted_results, 1,
                    IF k < Len(sorted_results) THEN k ELSE Len(sorted_results))

\* the longest list that is filtered
MaxResults == 4

FilterDelays == {10, 20, 30, 40}

Percentages == {1, 25, 30, 50, 75, 99, 100}

\* the lists handed to latency_filter_ips: (ip, delay, delay, 0) with the
\* addresses 1..n in list order
ResultLists ==
    UNION {{[i \in 1..n |-> [ip |-> i, min_delay |-> ds[i]]] :
               ds \in [1..n -> FilterDelays]} : n \in 0..MaxResults}

InitRank ==
    /\ pc = "idle"
    /\ CacheIdle
    /\ ProbeIdle
    /\ OrchIdle
    /\ score_call = NoScoreCall
    /\ bandwidth_results = <<>>
    /\ StageIdle
    /\ \E rs \in ResultLists, p \in Percentages :
          rank = [results |-> rs, percentage |-> p, done |-> FALSE,
                  out |-> <<>>]

\* the call latency_filter_ips(results, percentage)
LatencyFilterIps ==
    /\ ~rank.done
    /\ rank' = [rank EXCEPT !.done = TRUE,
                            !.out = latency_filter_ips(rank.results,
                                                       rank.percentage)]
    /\ UNCHANGED <<cacheVars, probeVars, orch, score_call, bandwidth_results>>
    /\ UNCHANGED stageVars

NextRank == LatencyFilterIps

SpecRank == InitRank /\ [][NextRank]_vars

-----------------------------------------------------------------------------
(* main(): the collected addresses are made unique and sorted.  Two       *)
(* collections are kept side by side so that their results can be         *)
(* compared.                                                               *)

\* What the sources yield: strings that the pattern ([0-9]{1,3}\.){3}[0-9]{1,3}
\* matches and whose parts are at most 255; a part may have leading zeros.
CollectedAddresses == {<<"0", "0", "0", d>> : d \in {"0", "00", "255"}}

\* the longest all_ips
MaxCollected == 3

CollectedLists ==
    UNION {[1..n -> CollectedAddresses] : n \in 0..MaxCollected}

\* set(all_ips): the distinct strings
Elements(list) == {list[i] : i \in 1..Len(list)}

\* list(set(all_ips)): the strings in the order of the hash table, which
\* depends on the hash seed of the process and on the order of insertion
IterationOrders(S) ==
    {o \in [1..Cardinality(S) -> S] : Elements(o) = S}

\* the sort key [int(p) for p in x.split('.')]
IntParts(x) == [i \in 1..Len(x) |-> IntValue(x[i])]

\* a < b for two lists of integers
RECURSIVE ListLess(_, _)
ListLess(a, b) ==
    IF b = <<>> THEN FALSE
    ELSE IF a = <<>> THEN TRUE
    ELSE IF Head(a) # Head(b) THEN Head(a) < Head(b)
    ELSE ListLess(Tail(a), Tail(b))

\* sorted(..., key=...): a stable sort by the key
RECURSIVE InsertByKey(_, _)
InsertByKey(sorted, x) ==
    IF sorted = <<>> THEN <<x>>
    ELSE IF ListLess(IntParts(x), IntParts(Head(sorted)))
         THEN <<x>> \o sorted
    ELSE <<Head(sorted)>> \o InsertByKey(Tail(sorted), x)

RECURSIVE SortedByKey(_)
SortedByKey(list) ==
    IF list = <<>> THEN <<>>
    ELSE InsertByKey(SortedByKey(SubSeq(list, 1, Len(list) - 1)),
                     list[Len(list)])

InitDedup ==
    /\ pc = "idle"
    /\ CacheIdle
    /\ ProbeIdle
    /\ OrchIdle
    /\ ScoreIdle
    /\ ranked = NotSorted
    /\ run = NoRun
    /\ rc = NoCall
    /\ bw = NoBandwidthTest
    /\ rg = NoRegionStage
    /\ wk = NoWorkers
    /\ bs = NoBandwidthStage
    /\ \E l1, l2 \in CollectedLists :
          /\ Elements(l1) = Elements(l2)
          /\ dedup = [all_ips |-> <<l1, l2>>, done |-> <<FALSE, FALSE>>,
                      unique_ips |-> <<<<>>, <<>>>>]

\* unique_ips = sorted(list(set(all_ips)), key=...) for collection r
SortUnique(r, order) ==
    /\ ~dedup.done[r]
    /\ order \in IterationOrders(Elements(dedup.all_ips[r]))
    /\ dedup' = [dedup EXCEPT !.done[r] = TRUE,
                              !.unique_ips[r] = SortedByKey(order)]
    /\ UNCHANGED <<cacheVars, probeVars, orch, scoreVars>>
    /\ UNCHANGED <<ranked, run, rc, bw, rg, wk, bs>>

NextDedup ==
    \E r \in 1..2 :
        \E order \in IterationOrders(Elements(dedup.all_ips[r])) :
            SortUnique(r, order)

SpecDedup == InitDedup /\ [][NextDedup]_vars

-----------------------------------------------------------------------------
(* One call of test_ip_bandwidth_only, request by request.  Speeds are in  *)
(* hundredths of a Mbps, latencies in milliseconds.                        *)

\* CONFIG["bandwidth_test_count"]
BandwidthTestCount == 3

\* len(test_urls)
NumTestUrls == 2

\* What one request of a round gives:
\*   "exception" session.get or the download raises
\*   "nodata"    a status other than 200, or no byte received
\*   "data"      bytes were received: the speed and the time to the response
TransferOutcomes ==
    {[st |-> "exception", speed |-> 0, latency |-> 0],
     [st |-> "nodata", speed |-> 0, latency |-> 0],
     [st |-> "data", speed |-> 300, latency |-> 20],
     [st |-> "data", speed |-> 300, latency |-> 80],
     [st |-> "data", speed |-> 500, latency |-> 50],
     [st |-> "data", speed |-> 600, latency |-> 80]}

RequestTarget_candidate(ip, url) == "candidate"

\* the host a round sends its request to: test_urls[url] names a download
\* endpoint and does not contain ip
RequestTarget(ip, url) == "endpoint"

ExitsEarly_never(speed_mbps) == FALSE

\* if speed_mbps > 5: the call returns at once
ExitsEarly(speed_mbps) == speed_mbps > 500

FallbackResult_always_failed(probe) ==
    [success |-> FALSE, bandwidth |-> 0, latency |-> 0]

\* what is returned when no round gave data, from the result of
\* test_ip_availability(ip)
FallbackResult(probe) ==
    IF probe.reachable
    THEN [success |-> TRUE, bandwidth |-> 0, latency |-> probe.delay]
    ELSE [success |-> FALSE, bandwidth |-> 0, latency |-> 0]

\* the addresses and the port lists of the bandwidth tests
BandwidthAddresses ==
    {<<"0", "0", "255", d>> : d \in {"0", "+4", "256"}}

BandwidthPortConfigs ==
    {[kind |-> "list", ports |-> ps] :
        ps \in {<<>>, <<[int |-> TRUE, v |-> 443]>>}}

InitBandwidth ==
    /\ pc = "idle"
    /\ CacheIdle
    /\ OrchIdle
    /\ ScoreIdle
    /\ ranked = NotSorted
    /\ dedup = NoDedup
    /\ run = NoRun
    /\ rc = NoCall
    /\ bw = NoBandwidthTest
    /\ rg = NoRegionStage
    /\ wk = NoWorkers
    /\ bs = NoBandwidthStage
    /\ probe_ip \in BandwidthAddresses
    /\ test_ports \in BandwidthPortConfigs
    /\ connects \in ConnectsFor(probe_ip, test_ports)
    /\ quick = NotRun
    /\ precise = NotRun

\* test_ip_bandwidth_only(ip, ...) is entered: the address is validated
EnterBandwidthTest ==
    /\ bw.at = "idle"
    /\ bw' = [bw EXCEPT !.at = IF PassesValidation(probe_ip)
                               THEN "rounds" ELSE "returned"]
    /\ UNCHANGED <<cacheVars, probeVars, orch, scoreVars>>
    /\ UNCHANGED <<ranked, dedup, run, rc, rg, wk, bs>>

\* one request of the loops over test_attempt and url, and what is done
\* with its outcome
TransferRound(o) ==
    /\ bw.at = "rounds"
    /\ Len(bw.rounds) < BandwidthTestCount * NumTestUrls
    /\ LET best_speed == IF o.speed > bw.best_speed
                         THEN o.speed ELSE bw.best_speed
           best_latency == IF bw.best_latency = 0 THEN o.latency
                           ELSE IF o.latency < bw.best_latency
                                THEN o.latency ELSE bw.best_latency
           log == Append(bw.rounds, o)
           url == (Len(bw.rounds) % NumTestUrls) + 1
           hosts == bw.contacted \cup {RequestTarget(probe_ip, url)}
       IN  IF o.st # "data"
           THEN bw' = [bw EXCEPT !.rounds = log, !.contacted = hosts]
           ELSE IF ExitsEarly(o.speed)
           THEN bw' = [bw EXCEPT !.at = "returned", !.rounds = log,
                                 !.contacted = hosts,
                                 !.best_speed = best_speed,
                                 !.best_latency = best_latency,
                                 !.success = TRUE,
                                 !.bandwidth = best_speed,
                                 !.latency = best_latency]
           ELSE bw' = [bw EXCEPT !.rounds = log,
                                 !.contacted = hosts,
                                 !.best_speed = best_speed,
                                 !.best_latency = best_latency]
    /\ UNCHANGED <<cacheVars, probeVars, orch, scoreVars>>
    /\ UNCHANGED <<ranked, dedup, run, rc, rg, wk, bs>>

\* the loops are over: the best round is returned, or, when no round gave
\* data, test_ip_availability(ip) is called and decides
FinishBandwidthTest ==
    /\ bw.at = "rounds"
    /\ Len(bw.rounds) = BandwidthTestCount * NumTestUrls
    /\ IF bw.best_speed > 0
       THEN /\ bw' = [bw EXCEPT !.at = "returned", !.success = TRUE,
                                !.bandwidth = bw.best_speed,
                                !.latency = bw.best_latency]
            /\ UNCHANGED precise
       ELSE LET probe == test_ip_availability(probe_ip, test_ports, connects)
                result == FallbackResult(probe)
            IN  /\ precise' = probe
                /\ bw' = [bw EXCEPT !.at = "returned",
                                    !.probe_calls = @ + 1,
                                    !.contacted =
                                        IF probe.sockets > 0
                                        THEN @ \cup {"candidate"} ELSE @,
                                    !.success = result.success,
                                    !.bandwidth = result.bandwidth,
                                    !.latency = result.latency]
    /\ UNCHANGED <<probe_ip, test_ports, connects, quick>>
    /\ UNCHANGED <<cacheVars, orch, scoreVars>>
    /\ UNCHANGED <<ranked, dedup, run, rc, rg, wk, bs>>

NextBandwidth ==
    \/ EnterBandwidthTest
    \/ \E o \in TransferOutcomes : TransferRound(o)
    \/ FinishBandwidthTest

SpecBandwidth == InitBandwidth /\ [][NextBandwidth]_vars

-----------------------------------------------------------------------------
(* get_regions_concurrently: every item is submitted to the pool, then the *)
(* results are read in the order of the input list.                        *)

\* the longest list handed to get_regions_concurrently
MaxRegionItems == 3

\* the items (ip, min_delay, avg_delay) of the input list; avg_delay is left
\* out, main() always passes it equal to min_delay or 0
RegionItems ==
    {[ip |-> 1, min_delay |-> 0], [ip |-> 1, min_delay |-> 20],
     [ip |-> 2, min_delay |-> 0]}

RegionInputs ==
    UNION {[1..n -> RegionItems] : n \in 0..MaxRegionItems}

\* what the future of one get_ip_region call holds when it is done
ResolveOutcomes == {"US", "Unknown", "raise"}

InitRegions ==
    /\ pc = "regions"
    /\ CacheIdle
    /\ ProbeIdle
    /\ OrchIdle
    /\ ScoreIdle
    /\ ranked = NotSorted
    /\ dedup = NoDedup
    /\ run = NoRun
    /\ rc = NoCall
    /\ bw = NoBandwidthTest
    /\ wk = NoWorkers
    /\ bs = NoBandwidthStage
    /\ \E ips \in RegionInputs :
          rg = [at |-> "collect", ips |-> ips,
                outcome |-> [j \in 1..Len(ips) |-> "pending"],
                results |-> <<>>]

\* the get_ip_region call submitted for item j ends, in any order
ResolveCompletes(j, r) ==
    /\ rg.at = "collect"
    /\ j \in 1..Len(rg.ips)
    /\ rg.outcome[j] = "pending"
    /\ rg' = [rg EXCEPT !.outcome[j] = r]
    /\ UNCHANGED <<cacheVars, probeVars, orch, scoreVars>>
    /\ UNCHANGED <<ranked, dedup, run, rc, bw, wk, bs>>

\* the future main's loop reads for item i: the first one of future_to_ip
\* (in the order of submission) whose item equals item i
FutureFor(ips, i) ==
    CHOOSE f \in 1..Len(ips) :
        /\ ips[f] = ips[i]
        /\ \A g \in 1..(f - 1) : ips[g] # ips[i]

\* what is appended to results for an item, from what future.result() gives
RegionResult(item, outcome) ==
    [ip |-> item.ip,
     region_code |-> IF outcome = "raise" THEN "Unknown" ELSE outcome,
     min_delay |-> item.min_delay]

\* one iteration of the loop over ips: future.result() of the item's future
\* is awaited and the result is appended
CollectRegion ==
    /\ rg.at = "collect"
    /\ Len(rg.results) < Len(rg.ips)
    /\ LET i == Len(rg.results) + 1
           f == FutureFor(rg.ips, i)
       IN  /\ rg.outcome[f] # "pending"
           /\ rg' = [rg EXCEPT !.results =
                        Append(@, RegionResult(rg.ips[i], rg.outcome[f]))]
    /\ UNCHANGED <<cacheVars, probeVars, orch, scoreVars>>
    /\ UNCHANGED <<ranked, dedup, run, rc, bw, wk, bs>>

\* the loop is over and the with block has waited for every future:
\* results is returned
ReturnRegions ==
    /\ rg.at = "collect"
    /\ Len(rg.results) = Len(rg.ips)
    /\ \A j \in 1..Len(rg.ips) : rg.outcome[j] # "pending"
    /\ rg' = [rg EXCEPT !.at = "returned"]
    /\ UNCHANGED <<cacheVars, probeVars, orch, scoreVars>>
    /\ UNCHANGED <<ranked, dedup, run, rc, bw, wk, bs>>

NextRegions ==
    \/ \E j \in 1..MaxRegionItems, r \in ResolveOutcomes :
          ResolveCompletes(j, r)
    \/ CollectRegion
    \/ ReturnRegions

SpecRegions == InitRegions /\ [][NextRegions]_vars

-----------------------------------------------------------------------------
(* main(): the bandwidth tests.  tcp_ping_ips is numbered 1..n in list     *)
(* order; the loop calls test_ip_bandwidth_only on one address after the   *)
(* other.                                                                  *)

\* the longest tcp_ping_ips
MaxMeasured == 5

InitBandwidthStage ==
    /\ pc = "bandwidth_stage"
    /\ CacheIdle
    /\ ProbeIdle
    /\ OrchIdle
    /\ ScoreIdle
    /\ ranked = NotSorted
    /\ dedup = NoDedup
    /\ run = NoRun
    /\ rc = NoCall
    /\ bw = NoBandwidthTest
    /\ rg = NoRegionStage
    /\ wk = NoWorkers
    /\ \E n \in 0..MaxMeasured :
          bs = [at |-> "loop", n |-> n, i |-> 0, running |-> {},
                called |-> {}, bandwidth_results |-> <<>>]

\* for i, (ip, delay) in enumerate(tcp_ping_ips, 1): the loop body calls
\* test_ip_bandwidth_only(ip, i, len(tcp_ping_ips)) in the thread of main()
CallBandwidthTest ==
    /\ bs.at = "loop"
    /\ bs.running = {}
    /\ bs.i < bs.n
    /\ bs' = [bs EXCEPT !.running = {bs.i + 1},
                        !.called = @ \cup {bs.i + 1}]
    /\ UNCHANGED <<cacheVars, probeVars, orch, scoreVars>>
    /\ UNCHANGED <<ranked, dedup, run, rc, bw, rg, wk>>

\* the call returns (it catches its own exceptions); a usable address is
\* scored and appended, and the loop goes on
BandwidthTestReturns(is_fast) ==
    /\ bs.at = "loop"
    /\ bs.running # {}
    /\ LET k == bs.i + 1
       IN  bs' = [bs EXCEPT !.running = {},
                           !.i = k,
                           !.bandwidth_results =
                               IF is_fast THEN Append(@, k) ELSE @]
    /\ UNCHANGED <<cacheVars, probeVars, orch, scoreVars>>
    /\ UNCHANGED <<ranked, dedup, run, rc, bw, rg, wk>>

\* the loop is over: available_ips = bandwidth_results
EndBandwidthStage ==
    /\ bs.at = "loop"
    /\ bs.running = {}
    /\ bs.i = bs.n
    /\ bs' = [bs EXCEPT !.at = "done"]
    /\ UNCHANGED <<cacheVars, probeVars, orch, scoreVars>>
    /\ UNCHANGED <<ranked, dedup, run, rc, bw, rg, wk>>

NextBandwidthStage ==
    \/ CallBandwidthTest
    \/ \E is_fast \in BOOLEAN : BandwidthTestReturns(is_fast)
    \/ EndBandwidthStage

SpecBandwidthStage == InitBandwidthStage /\ [][NextBandwidthStage]_vars

-----------------------------------------------------------------------------
(* main(), stage by stage.  The candidates are numbered; each stage keeps  *)
(* the candidates its tests let through.  run.stages are the stages that   *)
(* have been carried out, run.files the files that have been written.      *)

\* the candidates the sources yield
MaxCandidates == 3

\* CONFIG["latency_filter_percentage"]
LatencyFilterPercentage == 30

BasicFiles == {"IPlist.txt", "Senflare.txt"}

ProFiles == {"IPlist-Pro.txt", "Senflare-Pro.txt", "Ranking.txt"}

InitMain ==
    /\ pc = "preprocess"
    /\ CacheIdle
    /\ ProbeIdle
    /\ OrchIdle
    /\ ScoreIdle
    /\ ranked = NotSorted
    /\ dedup = NoDedup
    /\ rc = NoCall
    /\ bw = NoBandwidthTest
    /\ rg = NoRegionStage
    /\ wk = NoWorkers
    /\ bs = NoBandwidthStage
    /\ \E mode \in BOOLEAN : run = [NoRun EXCEPT !.advanced_mode = mode]

\* the old result files are deleted; CONFIG["advanced_mode"] is read here
\* and nowhere else
DeleteOldFiles ==
    /\ pc = "preprocess"
    /\ run' = [run EXCEPT
                 !.deleted = IF run.advanced_mode
                             THEN BasicFiles \cup ProFiles ELSE BasicFiles]
    /\ pc' = "collect"
    /\ UNCHANGED <<cache_file, region_cache, now, ticks, calls>>
    /\ UNCHANGED <<probeVars, orch, scoreVars, ranked, dedup, rc, bw, rg, wk, bs>>

\* the sources are read and the addresses made unique; main() returns when
\* there are none
CollectAddresses(ips) ==
    /\ pc = "collect"
    /\ run' = [run EXCEPT !.unique_ips = ips, !.stages = @ \cup {"collect"}]
    /\ pc' = IF ips = {} THEN "returned" ELSE "quick_filter"
    /\ UNCHANGED <<cache_file, region_cache, now, ticks, calls>>
    /\ UNCHANGED <<probeVars, orch, scoreVars, ranked, dedup, rc, bw, rg, wk, bs>>

\* quick_filter_ip on every unique address; main() returns when none passes
QuickFilterStage(good) ==
    /\ pc = "quick_filter"
    /\ good \subseteq run.unique_ips
    /\ run' = [run EXCEPT !.filtered_ips = good,
                          !.stages = @ \cup {"quick_filter"}]
    /\ pc' = IF good = {} THEN "returned" ELSE "save_basic"
    /\ UNCHANGED <<cache_file, region_cache, now, ticks, calls>>
    /\ UNCHANGED <<probeVars, orch, scoreVars, ranked, dedup, rc, bw, rg, wk, bs>>

\* IPlist.txt is written
SaveBasicFile ==
    /\ pc = "save_basic"
    /\ run' = [run EXCEPT !.files = @ \cup {"IPlist.txt"}]
    /\ pc' = "regions"
    /\ UNCHANGED <<cache_file, region_cache, now, ticks, calls>>
    /\ UNCHANGED <<probeVars, orch, scoreVars, ranked, dedup, rc, bw, rg, wk, bs>>

\* the regions of the filtered addresses are resolved and Senflare.txt is
\* written (there is a record for every filtered address); wrote says
\* whether some address was not served from the cache, so that
\* get_ip_region stored an entry
RegionStage(wrote) ==
    /\ pc = "regions"
    /\ run' = [run EXCEPT !.stages = @ \cup {"regions"},
                          !.files = @ \cup {"Senflare.txt"},
                          !.cache_puts = wrote]
    /\ pc' = "latency_rank"
    /\ UNCHANGED <<cache_file, region_cache, now, ticks, calls>>
    /\ UNCHANGED <<probeVars, orch, scoreVars, ranked, dedup, rc, bw, rg, wk, bs>>

\* quick_filter_ip is called again on every filtered address, and
\* latency_filter_ips keeps the fastest of those that pass
LatencyRankStage(good, kept) ==
    /\ pc = "latency_rank"
    /\ good \subseteq run.filtered_ips
    /\ kept \subseteq good
    /\ Cardinality(kept) =
          (IF good = {} THEN 0
           ELSE keep_count(Cardinality(good), LatencyFilterPercentage))
    /\ run' = [run EXCEPT !.latency_filtered_ips = kept,
                          !.stages = @ \cup {"latency_rank"}]
    /\ pc' = "tcp_ping_stage"
    /\ UNCHANGED <<cache_file, region_cache, now, ticks, calls>>
    /\ UNCHANGED <<probeVars, orch, scoreVars, ranked, dedup, rc, bw, rg, wk, bs>>

\* test_ips_concurrently on the kept addresses returns the available ones
TcpPingStage(available) ==
    /\ pc = "tcp_ping_stage"
    /\ available \subseteq run.latency_filtered_ips
    /\ run' = [run EXCEPT !.tcp_ping_ips = available,
                          !.stages = @ \cup {"tcp_ping"}]
    /\ pc' = "bandwidth_stage"
    /\ UNCHANGED <<cache_file, region_cache, now, ticks, calls>>
    /\ UNCHANGED <<probeVars, orch, scoreVars, ranked, dedup, rc, bw, rg, wk, bs>>

\* test_ips_concurrently raises the TimeoutError of as_completed: main()
\* ends with the exception
TcpPingDeadline ==
    /\ pc = "tcp_ping_stage"
    /\ run.latency_filtered_ips # {}
    /\ run' = [run EXCEPT !.stages = @ \cup {"tcp_ping"}]
    /\ pc' = "failed"
    /\ UNCHANGED <<cache_file, region_cache, now, ticks, calls>>
    /\ UNCHANGED <<probeVars, orch, scoreVars, ranked, dedup, rc, bw, rg, wk, bs>>

\* test_ip_bandwidth_only on every available address; those it reports as
\* usable are scored
BandwidthTestStage(fast) ==
    /\ pc = "bandwidth_stage"
    /\ fast \subseteq run.tcp_ping_ips
    /\ run' = [run EXCEPT
                 !.bandwidth_results = fast,
                 !.stages = @ \cup (IF run.tcp_ping_ips = {} THEN {}
                                    ELSE {"bandwidth"})
                              \cup (IF fast = {} THEN {} ELSE {"score"})]
    /\ pc' = "save_pro"
    /\ UNCHANGED <<cache_file, region_cache, now, ticks, calls>>
    /\ UNCHANGED <<probeVars, orch, scoreVars, ranked, dedup, rc, bw, rg, wk, bs>>

\* if available_ips: the list is sorted, IPlist-Pro.txt and Ranking.txt are
\* written, the regions are resolved again and Senflare-Pro.txt is written
SaveProFiles ==
    /\ pc = "save_pro"
    /\ run' = IF run.bandwidth_results = {} THEN run
              ELSE [run EXCEPT !.stages = @ \cup {"rank", "pro_regions"},
                               !.files = @ \cup ProFiles]
    /\ pc' = "save_cache"
    /\ UNCHANGED <<cache_file, region_cache, now, ticks, calls>>
    /\ UNCHANGED <<probeVars, orch, scoreVars, ranked, dedup, rc, bw, rg, wk, bs>>

\* save_region_cache() and the closing statistics
SaveCacheFile ==
    /\ pc = "save_cache"
    /\ run' = [run EXCEPT !.files = @ \cup {"Cache.json"}]
    /\ pc' = "finished"
    /\ UNCHANGED <<cache_file, region_cache, now, ticks, calls>>
    /\ UNCHANGED <<probeVars, orch, scoreVars, ranked, dedup, rc, bw, rg, wk, bs>>

NextMain ==
    \/ DeleteOldFiles
    \/ \E ips \in SUBSET (1..MaxCandidates) : CollectAddresses(ips)
    \/ \E good \in SUBSET (1..MaxCandidates) : QuickFilterStage(good)
    \/ SaveBasicFile
    \/ \E wrote \in BOOLEAN : RegionStage(wrote)
    \/ \E good, kept \in SUBSET (1..MaxCandidates) :
          LatencyRankStage(good, kept)
    \/ \E available \in SUBSET (1..MaxCandidates) : TcpPingStage(available)
    \/ TcpPingDeadline
    \/ \E fast \in SUBSET (1..MaxCandidates) : BandwidthTestStage(fast)
    \/ SaveProFiles
    \/ SaveCacheFile

SpecMain == InitMain /\ [][NextMain]_vars

-----------------------------------------------------------------------------
(* The persisted caches the process may find *)

\* what one address may be mapped to in Cache.json
FileEntries(ip) ==
    { MkEntry(ip, "entry", "US", "iso", StartTime - CacheTtlHours),
      MkEntry(ip, "entry", "US", "iso", StartTime - CacheTtlHours + 1),
      MkEntry(ip, "entry", "JP", "iso", StartTime),
      MkEntry(ip, "entry", "US", "isospace", StartTime - CacheTtlHours + 1),
      MkEntry(ip, "entry", "US", "empty", 0),
      MkEntry(ip, "entry", "US", "bad", 0),
      MkEntry(ip, "noregion", "", "iso", StartTime - CacheTtlHours + 1),
      MkEntry(ip, "legacy", "US", "none", 0) }

\* the entries of the persisted caches with two addresses
PairEntries(ip) == {e \in FileEntries(ip) : Parses(e) /\ e.tsKind = "iso"
                                              /\ e.t > StartTime - CacheTtlHours}
                      \cup {MkEntry(ip, "legacy", "US", "none", 0)}

SmallItems ==
    {<<>>}
      \cup UNION {{<<e>> : e \in FileEntries(ip)} : ip \in IPs}
      \cup UNION {{<<e1, e2>> : e1 \in PairEntries(q[1]), e2 \in PairEntries(q[2])} :
                     q \in {q \in IPs \X IPs : q[1] < q[2]}}

\* persisted caches around the size limit; their addresses are not resolved
BigPatterns == {"fresh", "mixed", "legacy", "spaced"}

BigEntry(pat, i) ==
    CASE pat = "fresh" ->
           MkEntry(100 + i, "entry", "US", "iso", StartTime - (i % 100))
      [] pat = "legacy" ->
           MkEntry(100 + i, "legacy", "JP", "none", 0)
      [] pat = "spaced" ->
           IF i % 2 = 1 THEN MkEntry(100 + i, "entry", "US", "isospace",
                                     StartTime - 1)
           ELSE MkEntry(100 + i, "entry", "US", "iso", StartTime - 10)
      [] OTHER ->
           IF i = 2 THEN MkEntry(100 + i, "entry", "US", "iso",
                                 StartTime - CacheTtlHours)
           ELSE IF i % 3 = 1 THEN MkEntry(100 + i, "legacy", "JP", "none", 0)
           ELSE IF i % 3 = 2 THEN MkEntry(100 + i, "entry", "US", "isospace",
                                          StartTime - (i % 50))
           ELSE MkEntry(100 + i, "entry", "US", "iso", StartTime - (i % 70))

BigItems ==
    {[i \in 1..(MaxCacheEntries + k) |-> BigEntry(pat, i)] :
        k \in 0..MaxExtra, pat \in BigPatterns}

OtherShapes == {"missing", "unparseable", "scalar", "list", "str"}

\* the persisted caches of the runs that resolve regions
SmallCacheFiles ==
    {[shape |-> sh, items |-> <<>>] : sh \in OtherShapes}
      \cup {[shape |-> "dict", items |-> s] : s \in SmallItems}

\* the persisted caches of the start-up runs
CacheFiles ==
    SmallCacheFiles \cup {[shape |-> "dict", items |-> s] : s \in BigItems}

-----------------------------------------------------------------------------
(* The process: __main__ loads and cleans the cache and starts main();     *)
(* main() resolves regions while the clock advances.                       *)

NoEntry == MkEntry(0, "absent", "", "none", 0)

EntryOf(cache, ip) == IF HasKey(cache, ip) THEN Lookup(cache, ip) ELSE NoEntry

LastTwo(s) == IF Len(s) <= 2 THEN s ELSE SubSeq(s, Len(s) - 1, Len(s))

TickSteps == {1, CacheTtlHours}

InitCache ==
    /\ pc = "boot"
    /\ cache_file \in SmallCacheFiles
    /\ region_cache = EmptyDict
    /\ now = StartTime
    /\ ticks = 0
    /\ calls = <<>>
    /\ ProbeIdle
    /\ OrchIdle
    /\ ScoreIdle
    /\ StageIdle

\* __main__: load_region_cache()
LoadRegionCache ==
    /\ pc = "boot"
    /\ region_cache' = load_region_cache(cache_file)
    /\ pc' = "loaded"
    /\ UNCHANGED <<cache_file, now, ticks, calls>>
    /\ UNCHANGED <<probeVars, orch, scoreVars, stageVars>>

\* __main__: clean_expired_cache(); it is called outside the try block, so
\* an exception it raises ends the process before main() is called
CleanExpiredCache ==
    /\ pc = "loaded"
    /\ IF CleanRaises(region_cache)
       THEN /\ pc' = "crashed"
            /\ UNCHANGED region_cache
       ELSE /\ pc' = "cleaned"
            /\ region_cache' = clean_expired_cache(region_cache, now)
    /\ UNCHANGED <<cache_file, now, ticks, calls>>
    /\ UNCHANGED <<probeVars, orch, scoreVars, stageVars>>

\* __main__: main() is entered
StartMain ==
    /\ pc = "cleaned"
    /\ pc' = "main"
    /\ UNCHANGED <<cache_file, region_cache, now, ticks, calls>>
    /\ UNCHANGED <<probeVars, orch, scoreVars, stageVars>>

NumCalls == IF calls = <<>> THEN 0 ELSE calls[Len(calls)].n

\* one call of get_ip_region
Resolve(ip, p1, p2) ==
    /\ pc = "main"
    /\ NumCalls < MaxCalls
    /\ LET r == get_ip_region(region_cache, ip, now, p1, p2)
       IN  /\ region_cache' = r.cache
           /\ calls' = LastTwo(Append(calls,
                  [n |-> NumCalls + 1, ip |-> ip, res |-> r.res, val |-> r.val, net |-> r.net,
                   at |-> now, pre |-> EntryOf(region_cache, ip)]))
    /\ UNCHANGED <<pc, cache_file, now, ticks>>
    /\ UNCHANGED <<probeVars, orch, scoreVars, stageVars>>

\* time passes
Tick(d) ==
    /\ pc = "main"
    /\ ticks < MaxTicks
    /\ now' = now + d
    /\ ticks' = ticks + 1
    /\ UNCHANGED <<pc, cache_file, region_cache, calls>>
    /\ UNCHANGED <<probeVars, orch, scoreVars, stageVars>>

NextCache ==
    \/ LoadRegionCache
    \/ CleanExpiredCache
    \/ StartMain
    \/ \E ip \in IPs, p1, p2 \in ProviderOutcomes : Resolve(ip, p1, p2)
    \/ \E d \in TickSteps : Tick(d)

SpecCache == InitCache /\ [][NextCache]_vars

\* start-up alone, over every persisted cache
InitStartup ==
    /\ pc = "boot"
    /\ cache_file \in CacheFiles
    /\ region_cache = EmptyDict
    /\ now = StartTime
    /\ ticks = 0
    /\ calls = <<>>
    /\ ProbeIdle
    /\ OrchIdle
    /\ ScoreIdle
    /\ StageIdle

NextStartup ==
    \/ LoadRegionCache
    \/ CleanExpiredCache
    \/ StartMain

SpecStartup == InitStartup /\ [][NextStartup]_vars

-----------------------------------------------------------------------------
(* One call of get_ip_region, request by request.  session.get goes       *)
(* through the HTTPAdapter mounted with max_retries=3, which sends the     *)
(* request again after a transport error.                                  *)

\* max_retries of the adapter
MaxRetries == 3

\* What one HTTP attempt gives: a transport error (connection failure,
\* timeout), or a response, which get_ip_region handles as ProviderOutcomes
\* says ("exception": the handling of the response raises)
TransportError == [st |-> "error", code |-> ""]

AttemptResults == ProviderOutcomes \cup {TransportError}

\* what session.get amounts to after its last attempt
GetOutcome(r) ==
    IF r.st = "error" THEN [st |-> "exception", code |-> ""] ELSE r

\* the adapter sends the request again after `made` failed attempts
RetryAllowed(made) == made < 1 + MaxRetries

AttemptsOf(log, provider) ==
    Cardinality({j \in 1..Len(log) : log[j].provider = provider})

AfterPrimary_falls_through(p) == "secondary"

\* where get_ip_region goes when session.get to the primary has finished
AfterPrimary(p) == IF ProviderSucceeds(p) THEN "returned" ELSE "secondary"

\* the caches main() can work on: a persisted cache after load and cleanup
CachesAfterStartup ==
    {clean_expired_cache(load_region_cache(f), StartTime) :
        f \in {g \in SmallCacheFiles : ~CleanRaises(load_region_cache(g))}}

InitResolve ==
    /\ pc = "main"
    /\ cache_file = [shape |-> "missing", items |-> <<>>]
    /\ region_cache \in CachesAfterStartup
    /\ now \in {StartTime, StartTime + CacheTtlHours}
    /\ ticks = 0
    /\ calls = <<>>
    /\ ProbeIdle
    /\ OrchIdle
    /\ ScoreIdle
    /\ ranked = NotSorted
    /\ dedup = NoDedup
    /\ run = NoRun
    /\ bw = NoBandwidthTest
    /\ rg = NoRegionStage
    /\ wk = NoWorkers
    /\ bs = NoBandwidthStage
    /\ rc = NoCall

\* get_ip_region(ip) is entered: the cache check
CheckCache(ip) ==
    /\ rc.at = "idle"
    /\ LET check == CacheCheck(region_cache, ip, now)
       IN  rc' = CASE check = "hit" ->
                       [rc EXCEPT !.at = "returned", !.ip = ip, !.hit = TRUE,
                                  !.val = Lookup(region_cache, ip).region]
                  [] check = "raise" ->
                       [rc EXCEPT !.at = "raised", !.ip = ip]
                  [] OTHER ->
                       [rc EXCEPT !.at = "primary", !.ip = ip]
    /\ UNCHANGED <<pc, cache_file, region_cache, now, ticks, calls>>
    /\ UNCHANGED <<probeVars, orch, scoreVars, ranked, dedup, run, bw, rg, wk, bs>>

\* one HTTP attempt of session.get to the primary provider, and, when it is
\* the last one, what get_ip_region does with the outcome
PrimaryAttempt(r) ==
    /\ rc.at = "primary"
    /\ LET made == AttemptsOf(rc.attempts, "primary") + 1
           log == Append(rc.attempts, [provider |-> "primary", st |-> r.st])
           p == GetOutcome(r)
           entry == MkEntry(rc.ip, "entry", Upper(p.code), "iso", now)
       IN  IF r.st = "error" /\ RetryAllowed(made)
           THEN /\ rc' = [rc EXCEPT !.attempts = log]
                /\ UNCHANGED region_cache
           ELSE IF ProviderSucceeds(p)
           THEN /\ region_cache' = Put(region_cache, entry)
                /\ rc' = [rc EXCEPT
                             !.at = AfterPrimary(p),
                             !.attempts = log,
                             !.gets = Append(@, [provider |-> "primary",
                                                 outcome |-> p]),
                             !.writes = Append(@, entry),
                             !.val = Upper(p.code)]
           ELSE /\ UNCHANGED region_cache
                /\ rc' = [rc EXCEPT
                             !.at = AfterPrimary(p),
                             !.attempts = log,
                             !.gets = Append(@, [provider |-> "primary",
                                                 outcome |-> p])]
    /\ UNCHANGED <<pc, cache_file, now, ticks, calls>>
    /\ UNCHANGED <<probeVars, orch, scoreVars, ranked, dedup, run, bw, rg, wk, bs>>

\* one HTTP attempt of session.get to the secondary provider; when it is the
\* last one and gave no country code, 'Unknown' is written and returned
SecondaryAttempt(r) ==
    /\ rc.at = "secondary"
    /\ LET made == AttemptsOf(rc.attempts, "secondary") + 1
           log == Append(rc.attempts, [provider |-> "secondary", st |-> r.st])
           p == GetOutcome(r)
           region == IF ProviderSucceeds(p) THEN Upper(p.code) ELSE "Unknown"
           entry == MkEntry(rc.ip, "entry", region, "iso", now)
       IN  IF r.st = "error" /\ RetryAllowed(made)
           THEN /\ rc' = [rc EXCEPT !.attempts = log]
                /\ UNCHANGED region_cache
           ELSE /\ region_cache' = Put(region_cache, entry)
                /\ rc' = [rc EXCEPT
                             !.at = "returned",
                             !.attempts = log,
                             !.gets = Append(@, [provider |-> "secondary",
                                                 outcome |-> p]),
                             !.writes = Append(@, entry),
                             !.val = region]
    /\ UNCHANGED <<pc, cache_file, now, ticks, calls>>
    /\ UNCHANGED <<probeVars, orch, scoreVars, ranked, dedup, run, bw, rg, wk, bs>>

NextResolve ==
    \/ \E ip \in IPs : CheckCache(ip)
    \/ \E r \in AttemptResults : PrimaryAttempt(r)
    \/ \E r \in AttemptResults : SecondaryAttempt(r)

SpecResolve == InitResolve /\ [][NextResolve]_vars

-----------------------------------------------------------------------------
(* get_ip_region calls running side by side in the threads of the pool of  *)
(* get_regions_concurrently, on the one global region_cache.  A step is    *)
(* one access to the shared dict; what a thread does on its own locals     *)
(* between two accesses belongs to the step before.                        *)

\* the threads of the pool that are followed
Threads == {1, 2}

\* the caches the region stage can start from
WorkerCaches ==
    {c \in CachesAfterStartup : Len(c.items) <= 1}

WholeEntry_timestamp_only(ip, region, nowv) ==
    MkEntry(ip, "noregion", "", "iso", nowv)

\* the dict {'region': ..., 'timestamp': datetime.now().isoformat()} that is
\* built before it is stored
WholeEntry(ip, region, nowv) == MkEntry(ip, "entry", region, "iso", nowv)

InitWorkers ==
    /\ pc = "regions"
    /\ cache_file = [shape |-> "missing", items |-> <<>>]
    /\ region_cache \in WorkerCaches
    /\ now \in {StartTime, StartTime + CacheTtlHours}
    /\ ticks = 0
    /\ calls = <<>>
    /\ ProbeIdle
    /\ OrchIdle
    /\ ScoreIdle
    /\ ranked = NotSorted
    /\ dedup = NoDedup
    /\ run = NoRun
    /\ rc = NoCall
    /\ bw = NoBandwidthTest
    /\ rg = NoRegionStage
    /\ bs = NoBandwidthStage
    /\ \E ips \in [Threads -> IPs] :
          wk = [initial |-> region_cache, written |-> {},
                th |-> [w \in Threads |->
                          [at |-> "check", ip |-> ips[w], seen |-> NoEntry,
                           val |-> ""]]]

\* if ip in region_cache
WorkerChecks(w) ==
    /\ wk.th[w].at = "check"
    /\ wk' = [wk EXCEPT !.th[w].at =
                 IF HasKey(region_cache, wk.th[w].ip) THEN "read"
                 ELSE "request"]
    /\ UNCHANGED <<cacheVars, probeVars, orch, scoreVars>>
    /\ UNCHANGED <<ranked, dedup, run, rc, bw, rg, bs>>

\* cached_data = region_cache[ip], and what the thread makes of the entry
\* it got
WorkerReads(w) ==
    /\ wk.th[w].at = "read"
    /\ LET ip == wk.th[w].ip
           cached_data == Lookup(region_cache, ip)
           check == CacheCheck(Put(EmptyDict, cached_data), ip, now)
       IN  wk' = [wk EXCEPT
                    !.th[w].seen = cached_data,
                    !.th[w].at = CASE check = "hit" -> "returned"
                                   [] check = "raise" -> "raised"
                                   [] OTHER -> "request",
                    !.th[w].val = IF check = "hit" THEN cached_data.region
                                  ELSE ""]
    /\ UNCHANGED <<cacheVars, probeVars, orch, scoreVars>>
    /\ UNCHANGED <<ranked, dedup, run, rc, bw, rg, bs>>

\* the providers have answered: region_cache[ip] = {...} stores the new
\* entry, and the region is returned
WorkerWrites(w, p1, p2) ==
    /\ wk.th[w].at = "request"
    /\ LET ip == wk.th[w].ip
           e == WholeEntry(ip, ResolvedRegion(p1, p2), now)
       IN  /\ region_cache' = Put(region_cache, e)
           /\ wk' = [wk EXCEPT !.written = @ \cup {e},
                               !.th[w].at = "returned",
                               !.th[w].val = e.region]
    /\ UNCHANGED <<pc, cache_file, now, ticks, calls>>
    /\ UNCHANGED <<probeVars, orch, scoreVars>>
    /\ UNCHANGED <<ranked, dedup, run, rc, bw, rg, bs>>

\* time passes while the threads run
WorkerTick(d) ==
    /\ pc = "regions"
    /\ wk.th # <<>>
    /\ ticks < MaxTicks
    /\ now' = now + d
    /\ ticks' = ticks + 1
    /\ UNCHANGED <<pc, cache_file, region_cache, calls>>
    /\ UNCHANGED <<probeVars, orch, scoreVars, stageVars>>

NextWorkers ==
    \/ \E w \in Threads : WorkerChecks(w)
    \/ \E w \in Threads : WorkerReads(w)
    \/ \E w \in Threads, p1, p2 \in ProviderOutcomes : WorkerWrites(w, p1, p2)
    \/ \E d \in TickSteps : WorkerTick(d)

SpecWorkers == InitWorkers /\ [][NextWorkers]_vars

-----------------------------------------------------------------------------
(* Properties of the Geo Cache and the resolver *)

\* the call found an entry with a timestamp younger than the TTL
FoundFresh(c) ==
    /\ HasTimestampKey(c.pre)
    /\ Parses(c.pre)
    /\ c.at - c.pre.t < CacheTtlHours

ServedFromCache(c) == c.res = "return" /\ c.net = 0

\* C1 as stated: get_ip_region returns a cached value only for an entry
\* that is present with now - resolvedAt < TTL, and asks the providers in
\* every other case.
C1_OnlyFreshEntriesServed ==
    \A i \in 1..Len(calls) :
        /\ ServedFromCache(calls[i]) => FoundFresh(calls[i])
        /\ ~FoundFresh(calls[i]) => calls[i].net >= 1

\* C1 amended: an entry that carries a timestamp is served only while
\* now - resolvedAt < TTL and is treated as absent (the providers are asked)
\* from age TTL on; an absent address goes to the providers; an old-format
\* entry without timestamp is served as cached, whatever its age.
C1_TimestampedEntriesExpire ==
    \A i \in 1..Len(calls) :
        LET c == calls[i]
        IN  /\ ServedFromCache(c) =>
                 \/ c.pre.kind = "legacy"
                 \/ c.pre.kind = "entry" /\ FoundFresh(c)
            /\ ServedFromCache(c) => c.val = c.pre.region
            /\ (HasTimestampKey(c.pre) /\ ~FoundFresh(c)) =>
                 (c.res = "return" /\ c.net >= 1)
            /\ c.pre.kind = "absent" => c.net >= 1
            /\ c.pre.kind = "legacy" => ServedFromCache(c)

\* an entry of age exactly TTL was found, and the providers were asked
C1_Witness ==
    \E i \in 1..Len(calls) :
        /\ HasTimestampKey(calls[i].pre)
        /\ calls[i].at - calls[i].pre.t = CacheTtlHours
        /\ calls[i].net >= 1

\* the second of two successive calls for one address comes while the entry
\* the first call served or wrote is younger than the TTL
WithinTtl(c1, c2) ==
    IF c1.net >= 1 THEN c2.at - c1.at < CacheTtlHours
    ELSE IF c1.pre.kind = "legacy" THEN TRUE
    ELSE c2.at - c1.pre.t < CacheTtlHours

\* C2: two successive get_ip_region calls for one address within the TTL:
\* the second sends no request and returns what the first returned,
\* whatever the two providers answered.
C2_SecondCallFromCache ==
    (/\ Len(calls) = 2
     /\ calls[1].ip = calls[2].ip
     /\ calls[1].res = "return"
     /\ WithinTtl(calls[1], calls[2]))
    => /\ calls[2].net = 0
       /\ calls[2].res = "return"
       /\ calls[2].val = calls[1].val

\* both providers failed in the first call, time passed, and the second
\* call answered "Unknown" without a request
C2_Witness ==
    /\ Len(calls) = 2
    /\ calls[1].ip = calls[2].ip
    /\ calls[1].net = 2
    /\ calls[1].val = "Unknown"
    /\ calls[2].at > calls[1].at
    /\ calls[2].net = 0
    /\ calls[2].val = "Unknown"

\* C3: when clean_expired_cache has returned, region_cache holds at most
\* 1000 entries, whatever the size and the mix of the loaded cache.
C3_CleanupBoundsSize ==
    pc = "cleaned" => Len(region_cache.items) <= MaxCacheEntries

\* a persisted cache above the limit was cut down to the limit
C3_Witness ==
    /\ pc = "cleaned"
    /\ Len(cache_file.items) > MaxCacheEntries
    /\ Len(region_cache.items) = MaxCacheEntries
    /\ \E i \in 1..Len(cache_file.items) : ~HasTimestampKey(cache_file.items[i])

\* the persisted cache is not a usable address-to-entry mapping
FileInvalid ==
    \/ cache_file.shape \in {"unparseable", "scalar", "list", "str"}
    \/ \E i \in 1..Len(cache_file.items) :
          HasTimestampKey(cache_file.items[i]) /\ ~Parses(cache_file.items[i])

\* C7: whatever Cache.json holds, start-up is not fatal: load and cleanup
\* end with a usable cache, empty when the content is invalid, and main()
\* is started.
C7_CorruptCacheNeverFatal ==
    /\ pc # "crashed"
    /\ pc \in {"cleaned", "main"} =>
          /\ region_cache.shape = "dict"
          /\ FileInvalid => region_cache.items = <<>>

-----------------------------------------------------------------------------
(* Properties of the probes, the orchestrator, the score and the filter *)

\* C5 as stated: when the 30 seconds of a batch pass with items outstanding,
\* the items are left out and the run goes on: the other batches are
\* processed, test_ips_concurrently returns, main() goes to its later
\* stages.
C5_DeadlineOnlyDropsItems ==
    orch.deadline_hit =>
        /\ orch.at # "aborted"
        /\ pc \in {"tcp_ping", "bandwidth", "save", "done"}

\* ceil(n / batch_size)
NumBatches(n, b) == (n + b - 1) \div b

Collects(k) ==
    \E j \in 1..Len(orch.available_ips) : orch.available_ips[j].ip = k

\* C6: an exception of the operation of one item is caught and the item
\* counts as not available: no exception of an operation ends the
\* orchestrator, the results of the other items are kept, and when the
\* orchestrator returns every batch has been run and every item handled.
C6_OperationExceptionsContained ==
    /\ orch.at = "aborted" => orch.deadline_hit
    /\ \A k \in 1..orch.n :
          /\ orch.seen[k] = "raise" => ~Collects(k)
          /\ orch.seen[k] = "available" => Collects(k)
    /\ orch.at = "returned" =>
          /\ \A k \in 1..orch.n : orch.seen[k] # "none"
          /\ Len(orch.batches) = NumBatches(orch.n, orch.batch_size)

\* the first item of a batch raised, another item of that batch was
\* collected after it, a later batch was collected, and the list was returned
C6_Witness ==
    /\ orch.at = "returned"
    /\ pc = "bandwidth"
    /\ Len(orch.batches) >= 2
    /\ {1, 2} \subseteq orch.batches[1]
    /\ orch.seen[1] = "raise"
    /\ Collects(2)
    /\ \E k \in orch.batches[2] : Collects(k)

\* the sum of the three components as the specification gives them, in
\* hundredths of a point
ReferenceTotal(min_delay, bandwidth, stability) ==
    (CASE min_delay \in 0..50 -> 4000
       [] min_delay \in 51..100 -> 3500
       [] min_delay \in 101..200 -> 3000
       [] min_delay \in 201..300 -> 2500
       [] min_delay \in 301..500 -> 2000 - 10 * (min_delay - 300)
       [] OTHER -> 0)
    + (CASE bandwidth >= 5000 -> 3000
         [] bandwidth \in 2000..4999 -> 2500
         [] bandwidth \in 1000..1999 -> 2000
         [] bandwidth \in 500..999 -> 1500
         [] OTHER -> 3 * bandwidth)
    + (CASE stability >= 100 -> 3000
         [] OTHER -> 30 * stability)

\* C8: calculate_score is the reference sum rounded to one decimal (a
\* nearest tenth), and score(50,50,60,100) = 100.0, score(400,400,0,0) = 10.0.
C8_ScoreIsReferenceFormula ==
    score_call.called =>
        LET in == score_call.in
            ref == ReferenceTotal(in.min_delay, in.bandwidth, in.stability)
        IN  /\ 10 * score_call.out - ref <= 5
            /\ ref - 10 * score_call.out <= 5
            /\ ref % 10 < 5 => 10 * score_call.out <= ref
            /\ ref % 10 > 5 => 10 * score_call.out >= ref
            /\ (in.min_delay = 50 /\ in.avg_delay = 50 /\ in.bandwidth = 6000
                  /\ in.stability = 100) => score_call.out = 1000
            /\ (in.min_delay = 400 /\ in.avg_delay = 400 /\ in.bandwidth = 0
                  /\ in.stability = 0) => score_call.out = 100

\* score(400, 400, 0, 0) has been computed
C8_Witness ==
    /\ score_call.called
    /\ score_call.in = [min_delay |-> 400, avg_delay |-> 400, bandwidth |-> 0,
                        stability |-> 0]
    /\ score_call.out = 100

\* C9: the score of non-negative arguments lies in [0, 100], and so does the
\* score of every result main() collects.
C9_ScoreInRange ==
    /\ score_call.called => (0 <= score_call.out /\ score_call.out <= 1000)
    /\ \A i \in 1..Len(bandwidth_results) :
          /\ 0 <= bandwidth_results[i].score
          /\ bandwidth_results[i].score <= 1000

\* a call with a stability above 100 and the best delay and bandwidth gave
\* 100.0, and main() has collected a result with 100.0
C9_Witness ==
    /\ score_call.called
    /\ score_call.in.stability > 100
    /\ score_call.out = 1000
    /\ \E i \in 1..Len(bandwidth_results) : bandwidth_results[i].score = 1000

IsKept(x) == \E j \in 1..Len(rank.out) : rank.out[j] = x

\* C10: latency_filter_ips returns the max(1, floor(count*percentage/100))
\* entries of lowest delay in ascending order: the result has that length,
\* is sorted, consists of entries of the input, no dropped entry is faster
\* than a kept one, an empty list gives an empty list, and delays
\* 10,20,30,40 at 30% give the entry with delay 10 alone.
C10_LatencyRankKeepsFastest ==
    rank.done =>
        LET n == Len(rank.results)
            floor == (n * rank.percentage) \div 100
        IN  /\ n = 0 => rank.out = <<>>
            /\ n > 0 => Len(rank.out) = IF floor >= 1 THEN floor ELSE 1
            /\ \A j \in 1..Len(rank.out) :
                  \E i \in 1..n : rank.results[i] = rank.out[j]
            /\ \A j, l \in 1..Len(rank.out) :
                  j < l => /\ rank.out[j].min_delay <= rank.out[l].min_delay
                           /\ rank.out[j].ip # rank.out[l].ip
            /\ \A i \in 1..n : \A j \in 1..Len(rank.out) :
                  ~IsKept(rank.results[i]) =>
                      rank.out[j].min_delay <= rank.results[i].min_delay
            /\ (n = 4 /\ rank.percentage = 30
                  /\ \A i \in 1..n : rank.results[i].min_delay = 10 * i)
                  => rank.out = <<[ip |-> 1, min_delay |-> 10]>>

\* an unsorted list of four was cut to its two fastest entries
C10_Witness ==
    /\ rank.done
    /\ Len(rank.results) = 4
    /\ rank.percentage = 50
    /\ rank.results[1].min_delay = 40
    /\ rank.results[4].min_delay = 10
    /\ Len(rank.out) = 2
    /\ rank.out[1].ip = 4

-----------------------------------------------------------------------------
(* Properties of the later stages of main() *)

\* C11: the final list holds the appended results ordered by score
\* descending, and two results of equal score stay in the order in which
\* they were appended.
C11_FinalSortStable ==
    ranked.done =>
        /\ Len(ranked.list) = Len(bandwidth_results)
        /\ \A i \in 1..Len(bandwidth_results) :
              \E j \in 1..Len(ranked.list) :
                  ranked.list[j] = bandwidth_results[i]
        /\ \A j, l \in 1..Len(ranked.list) :
              j < l =>
                  \/ ranked.list[j].score > ranked.list[l].score
                  \/ /\ ranked.list[j].score = ranked.list[l].score
                     /\ ranked.list[j].ip < ranked.list[l].ip

\* three results were sorted: the second appended has the highest score and
\* leads, the first and the third tie and keep their order
C11_Witness ==
    /\ ranked.done
    /\ Len(bandwidth_results) = 3
    /\ bandwidth_results[1].score = bandwidth_results[3].score
    /\ bandwidth_results[2].score > bandwidth_results[1].score
    /\ ranked.list = <<bandwidth_results[2], bandwidth_results[1],
                       bandwidth_results[3]>>

\* C12 as stated: two collections with the same set of addresses give the
\* identical unique_ips, and unique_ips holds no address twice.
C12_DedupOrderIndependent ==
    /\ \A r \in 1..2 :
          dedup.done[r] =>
              \A i, j \in 1..Len(dedup.unique_ips[r]) :
                  i # j => dedup.unique_ips[r][i] # dedup.unique_ips[r][j]
    /\ (dedup.done[1] /\ dedup.done[2]) =>
          dedup.unique_ips[1] = dedup.unique_ips[2]

\* C13 as stated: the orchestrator runs exactly ceil(n / batch_size)
\* batches, all of batch_size items except possibly the last, every item is
\* in exactly one batch, and at most n results are returned.
C13_BatchesPartitionItems ==
    /\ \A j \in 1..Len(orch.batches) :
          orch.batches[j] = {k \in 1..orch.n :
                                /\ (j - 1) * orch.batch_size < k
                                /\ k <= j * orch.batch_size}
    /\ Len(orch.available_ips) <= orch.n
    /\ orch.at \in {"returned", "aborted"} =>
          /\ Len(orch.batches) = NumBatches(orch.n, orch.batch_size)
          /\ \A k \in 1..orch.n :
                Cardinality({j \in 1..Len(orch.batches) :
                                k \in orch.batches[j]}) = 1

\* The stages and the files that belong to the advanced mode
AdvancedStages == {"latency_rank", "tcp_ping", "bandwidth", "score", "rank",
                   "pro_regions"}

\* C14 as stated: with advanced_mode false a run carries out no latency
\* ranking, precise probe, bandwidth or scoring stage and writes only the
\* basic list and the region-grouped list.
C14_AdvancedStagesGated ==
    ~run.advanced_mode =>
        /\ run.stages \cap AdvancedStages = {}
        /\ run.files \cap ProFiles = {}

-----------------------------------------------------------------------------
(* Properties of one get_ip_region call *)

\* a provider failed: exception, other status, or an empty country code
Failed(outcome) == outcome.st # "ok" \/ outcome.code = ""

GetsOf(provider) ==
    SelectSeq(rc.gets, LAMBDA g : g.provider = provider)

\* C15: after a miss, when session.get to the primary and to the secondary
\* provider have both failed, the entry ('Unknown', now) has been written
\* for the address and 'Unknown' is returned; after a miss the call never
\* raises.
C15_BothFailGivesUnknown ==
    /\ (Len(rc.gets) = 2 /\ Failed(rc.gets[1].outcome)
           /\ Failed(rc.gets[2].outcome)) =>
          /\ rc.at = "returned"
          /\ rc.val = "Unknown"
          /\ rc.writes = <<MkEntry(rc.ip, "entry", "Unknown", "iso", now)>>
          /\ HasKey(region_cache, rc.ip)
          /\ Lookup(region_cache, rc.ip) =
                 MkEntry(rc.ip, "entry", "Unknown", "iso", now)
    /\ (Len(rc.gets) = 1 /\ Failed(rc.gets[1].outcome)) =>
          (rc.at = "secondary" /\ rc.writes = <<>>)
    /\ rc.at = "raised" => (rc.attempts = <<>> /\ rc.gets = <<>>)

\* the primary provider answered with an empty country code, every attempt
\* to reach the secondary failed, and 'Unknown' is the entry of the address
C15_Witness ==
    /\ rc.at = "returned"
    /\ Len(rc.gets) = 2
    /\ rc.gets[1].outcome = [st |-> "ok", code |-> ""]
    /\ rc.gets[2].outcome.st = "exception"
    /\ AttemptsOf(rc.attempts, "secondary") = 1 + MaxRetries
    /\ rc.val = "Unknown"
    /\ Lookup(region_cache, rc.ip).region = "Unknown"
    /\ Len(region_cache.items) = 1

\* the part of C16 that does not count requests: the secondary provider is
\* asked only after session.get to the primary has failed, no provider is
\* asked on a hit, and a miss ends with exactly one write, of the value that
\* is returned
OneResultRecorded ==
    /\ \A j \in 1..Len(rc.attempts) :
          rc.attempts[j].provider = "secondary" =>
              /\ Len(GetsOf("primary")) = 1
              /\ Failed(GetsOf("primary")[1].outcome)
              /\ \A i \in 1..Len(rc.attempts) :
                    rc.attempts[i].provider = "primary" => i < j
    /\ rc.hit => (rc.attempts = <<>> /\ rc.writes = <<>>)
    /\ (rc.at = "returned" /\ ~rc.hit) =>
          /\ Len(rc.writes) = 1
          /\ rc.writes[1].region = rc.val
          /\ rc.writes[1].ip = rc.ip
    /\ rc.at # "returned" => rc.writes = <<>>

-----------------------------------------------------------------------------
(* Properties of the two probes *)

\* the positions of the configured ports that hold a valid port number
ValidPositions ==
    {i \in 1..Len(test_ports.ports) : ValidPort(test_ports.ports[i])}

\* the valid ports up to position n, in the configured order
PortsUpTo(n) ==
    LET positions == SelectSeq([i \in 1..Len(test_ports.ports) |-> i],
                               LAMBDA i : i \in ValidPositions /\ i <= n)
    IN  [j \in 1..Len(positions) |-> test_ports.ports[positions[j]].v]

MinOf(S) == CHOOSE x \in S : \A y \in S : x <= y

\* What a probe is to return and which ports it is to attempt, when a
\* connection after d tenths of a millisecond ends the scan iff Fast(d).
Expected(Fast(_)) ==
    LET conn == {i \in ValidPositions : connects[i].st = "connected"}
        fast == {i \in conn : Fast(connects[i].d)}
    IN  IF fast # {}
        THEN [reachable |-> TRUE,
              delay |-> RoundMs(connects[MinOf(fast)].d),
              attempted |-> PortsUpTo(MinOf(fast))]
        ELSE [reachable |-> conn # {},
              delay |-> IF conn = {} THEN 0
                        ELSE MinOf({RoundMs(connects[i].d) : i \in conn}),
              attempted |-> PortsUpTo(Len(test_ports.ports))]

Agrees(probe, exp) ==
    /\ probe.reachable = exp.reachable
    /\ probe.delay = exp.delay
    /\ probe.attempted = exp.attempted

\* C17 as stated: for a well-formed address the probe goes through the
\* configured ports in order and returns (true, delay) at the first port
\* that connects in under 200 ms, attempting no later port; otherwise it
\* returns (true, least delay) when a port connected and (false, 0) when
\* none did.
C17_ReturnsAtFirstConnectUnder200ms ==
    (~Malformed(probe_ip) /\ test_ports.kind = "list") =>
        /\ quick.done =>
              Agrees(quick, Expected(LAMBDA d : d < 2000))
        /\ precise.done =>
              Agrees(precise, Expected(LAMBDA d : d < 2000))

\* C17 amended: as stated, with "connects in under 200 ms" replaced by
\* "connects in a time that, rounded to whole milliseconds, is below 200".
C17_ReturnsAtFirstRoundedDelayUnder200 ==
    (~Malformed(probe_ip) /\ test_ports.kind = "list") =>
        /\ quick.done =>
              Agrees(quick, Expected(LAMBDA d : RoundMs(d) < 200))
        /\ precise.done =>
              Agrees(precise, Expected(LAMBDA d : RoundMs(d) < 200))

\* the first port connected after 199.5 ms, which counts as 200: both probes
\* went on to the second port, which connected faster, and returned its
\* delay
C17_Witness ==
    /\ ~Malformed(probe_ip)
    /\ test_ports.kind = "list"
    /\ Len(test_ports.ports) = 2
    /\ ValidPositions = {1, 2}
    /\ connects[1] = [st |-> "connected", d |-> 1995]
    /\ connects[2] = [st |-> "connected", d |-> 1500]
    /\ quick.done /\ precise.done
    /\ Len(quick.attempted) = 2 /\ Len(precise.attempted) = 2
    /\ quick.delay = 150 /\ precise.delay = 150

\* C18 as stated: whatever the address, the configured ports (empty, with
\* invalid ports, not a list) and the outcome of each connect, the two
\* probes attempt the same ports in the same order and return the same
\* pair.
C18_ProbesEquivalent ==
    (quick.done /\ precise.done) =>
        /\ quick.attempted = precise.attempted
        /\ quick.reachable = precise.reachable
        /\ quick.delay = precise.delay

-----------------------------------------------------------------------------
(* Properties of test_ip_bandwidth_only *)

LastRound == bw.rounds[Len(bw.rounds)]

DataRounds == {j \in 1..Len(bw.rounds) : bw.rounds[j].st = "data"}

\* no request is made after a round above 5 Mbps
NothingAfterFastRound ==
    \A j \in 1..Len(bw.rounds) :
        bw.rounds[j].speed > 500 => (j = Len(bw.rounds) /\ bw.at = "returned")

\* C19 as stated: as soon as a round is above 5 Mbps the call returns
\* success with the throughput and the latency of that round, and requests
\* nothing further.
C19_EarlyExitReturnsThatRound ==
    /\ NothingAfterFastRound
    /\ (bw.rounds # <<>> /\ LastRound.speed > 500) =>
          /\ bw.success
          /\ bw.bandwidth = LastRound.speed
          /\ bw.latency = LastRound.latency

\* C19 amended: as soon as a round is above 5 Mbps the call returns success
\* with the throughput of that round and the lowest latency of the rounds so
\* far that gave data, and requests nothing further.
C19_EarlyExitReturnsBestSoFar ==
    /\ NothingAfterFastRound
    /\ (bw.rounds # <<>> /\ LastRound.speed > 500) =>
          /\ bw.success
          /\ bw.bandwidth = LastRound.speed
          /\ bw.latency = MinOf({bw.rounds[j].latency : j \in DataRounds})

\* a slow round with a latency of 20 ms was followed by a round above 5 Mbps
\* with 80 ms: the call returned at once, with a latency of 20 ms
C19_Witness ==
    /\ bw.at = "returned"
    /\ Len(bw.rounds) = 3
    /\ bw.rounds[1].st = "exception"
    /\ bw.rounds[2] = [st |-> "data", speed |-> 300, latency |-> 20]
    /\ bw.rounds[3] = [st |-> "data", speed |-> 600, latency |-> 80]
    /\ bw.success /\ bw.bandwidth = 600 /\ bw.latency = 20

\* C20: when no round gave data, test_ip_availability is called once on the
\* address: reachable gives (true, 0, the delay of the probe), otherwise the
\* result is a failure; a round that fails or raises does not end the call
\* (every round is still requested), and the probe is called in no other
\* case.  An address that fails validation is rejected before any round,
\* without the probe.
C20_FallbackToPreciseProbe ==
    /\ bw.probe_calls <= 1
    /\ bw.probe_calls = 1 <=>
          (bw.at = "returned" /\ PassesValidation(probe_ip)
             /\ DataRounds = {})
    /\ \A j \in 1..Len(bw.rounds) :
          (bw.rounds[j].st # "data" /\ j < BandwidthTestCount * NumTestUrls)
              => (bw.at = "rounds" \/ Len(bw.rounds) > j)
    /\ (bw.at = "returned" /\ DataRounds = {}) =>
          /\ PassesValidation(probe_ip) =>
                /\ Len(bw.rounds) = BandwidthTestCount * NumTestUrls
                /\ precise.done
                /\ bw.success = precise.reachable
          /\ bw.bandwidth = 0
          /\ bw.latency = IF bw.success THEN precise.delay ELSE 0
          /\ ~PassesValidation(probe_ip) => ~bw.success

\* every round failed, one of them with an exception, the probe connected
\* after 150 ms, and the call returned (true, 0, 150)
C20_Witness ==
    /\ bw.at = "returned"
    /\ Len(bw.rounds) = BandwidthTestCount * NumTestUrls
    /\ DataRounds = {}
    /\ \E j \in 1..Len(bw.rounds) : bw.rounds[j].st = "exception"
    /\ bw.probe_calls = 1
    /\ precise.reachable /\ precise.delay = 150
    /\ bw.success /\ bw.bandwidth = 0 /\ bw.latency = 150

-----------------------------------------------------------------------------
(* Properties of the worker pool of test_ips_concurrently *)

\* the operations that have been submitted and have not ended
InFlight == orch.queued \cup orch.running

\* C21: the operations in flight all belong to the batch submitted last,
\* at most max_workers of them run at a time, and when a batch is submitted
\* every operation of the batches before it has ended.
C21_OneBatchInFlight ==
    /\ Cardinality(orch.running) <= orch.max_workers
    /\ InFlight # {} =>
          /\ orch.batches # <<>>
          /\ InFlight \subseteq orch.batches[Len(orch.batches)]
    /\ orch.at \in {"loop", "returned", "aborted"} => InFlight = {}

\* a second batch is in flight with two operations running at once, after
\* the first batch has ended
C21_Witness ==
    /\ Len(orch.batches) = 2
    /\ orch.max_workers = 2
    /\ Cardinality(orch.running) = 2
    /\ orch.running \subseteq orch.batches[2]
    /\ orch.queued = {}

-----------------------------------------------------------------------------
(* Properties of get_regions_concurrently *)

-----------------------------------------------------------------------------
(* Properties of the shared Geo Cache under concurrent get_ip_region calls *)

\* an entry with both 'region' and 'timestamp'
IsWhole(e) == e.kind = "entry" /\ e.tsKind = "iso" /\ e.region # ""

\* C23: whatever the interleaving, the entry a thread reads for its address
\* is the entry the cache held for it before the writes or an entry some
\* thread has stored, and every stored entry has its region and its
\* timestamp; the cache itself only ever holds such entries.
C23_ReadersSeeWholeEntries ==
    /\ \A e \in wk.written : IsWhole(e)
    /\ \A w \in DOMAIN wk.th :
          wk.th[w].seen # NoEntry =>
              \/ /\ HasKey(wk.initial, wk.th[w].ip)
                 /\ wk.th[w].seen = Lookup(wk.initial, wk.th[w].ip)
              \/ wk.th[w].seen \in wk.written
    /\ \A i \in 1..Len(region_cache.items) :
          \/ region_cache.items[i] \in wk.written
          \/ /\ HasKey(wk.initial, region_cache.items[i].ip)
             /\ region_cache.items[i] =
                   Lookup(wk.initial, region_cache.items[i].ip)

\* a thread found the address in the cache, another thread stored a new
\* entry for it, and the first thread then read that new entry
C23_Witness ==
    \E w, v \in DOMAIN wk.th :
        /\ w # v
        /\ wk.th[w].ip = wk.th[v].ip
        /\ HasKey(wk.initial, wk.th[w].ip)
        /\ wk.th[v].at = "returned"
        /\ wk.th[w].seen \in wk.written
        /\ wk.th[w].seen # Lookup(wk.initial, wk.th[w].ip)
        /\ IsWhole(wk.th[w].seen)

-----------------------------------------------------------------------------
(* Properties of clean_expired_cache: what is removed *)

\* the entries of a cache, as a set
EntrySet(cache) == {cache.items[i] : i \in 1..Len(cache.items)}

\* the entries of the loaded cache whose age is below the TTL, or that have
\* no timestamp
Unexpired == {e \in EntrySet(cache_file) : ~Expired(e, now)}

\* C24: when clean_expired_cache has returned, no entry of age >= TTL is
\* left; every unexpired entry is kept when there are at most 1000 of them;
\* otherwise exactly 1000 of them are left and no evicted entry has a later
\* timestamp than a retained one.
C24_CleanupEvictsOldestFirst ==
    pc = "cleaned" =>
        /\ EntrySet(region_cache) \subseteq Unexpired
        /\ Cardinality(Unexpired) <= MaxCacheEntries =>
              EntrySet(region_cache) = Unexpired
        /\ Cardinality(Unexpired) > MaxCacheEntries =>
              /\ Len(region_cache.items) = MaxCacheEntries
              /\ \A e \in Unexpired \ EntrySet(region_cache) :
                    \A r \in EntrySet(region_cache) :
                        (HasTimestampKey(e) /\ HasTimestampKey(r))
                            => e.t <= r.t

-----------------------------------------------------------------------------
(* Properties of main(): the cache is persisted *)

\* the process has ended: main() has finished, has returned early, or has
\* been left by an exception that __main__ logged
ProcessEnded == pc \in {"finished", "returned", "failed"}

\* C25: a run in which get_ip_region stored an entry has saved the cache
\* when the process ends, also when a later stage has failed.
C25_CacheSavedAfterLastPut ==
    (ProcessEnded /\ run.cache_puts) => "Cache.json" \in run.files

-----------------------------------------------------------------------------
(* Properties of the bandwidth tests of main() *)

\* CONFIG["batch_size"]
BatchSize == 10

\* the addresses of the batch of item k
BatchOf(k) ==
    {j \in 1..bs.n : (j - 1) \div BatchSize = (k - 1) \div BatchSize}

\* C26: the bandwidth tests go through the batched orchestrator: when the
\* result of one address is handled, the measurement of every address of
\* its batch has been handed to the pool (so that they can be in flight
\* together), and the measurements of a batch are not called one after the
\* other.
C26_BandwidthStageBatched ==
    \A k \in 1..bs.i : BatchOf(k) \subseteq bs.called

-----------------------------------------------------------------------------
(* Properties of test_ip_bandwidth_only: what the result depends on *)

MaxOf(S) == CHOOSE m \in S : \A x \in S : x <= m

\* the result as a function of the answers of the download endpoints alone
MeasuredFrom(rounds) ==
    LET data == {j \in 1..Len(rounds) : rounds[j].st = "data"}
    IN  [success |-> TRUE,
         bandwidth |-> MaxOf({rounds[j].speed : j \in data}),
         latency |-> MinOf({rounds[j].latency : j \in data})]

-----------------------------------------------------------------------------
(* Properties of main(): the stages narrow the candidates *)

\* the address strings of the candidates 1..MaxCandidates, as the regular
\* expression of the collection takes them from a source ("0.0.0.0",
\* "0.0.0.00", "0.0.0.255", then further last parts)
Spelling(c) ==
    <<"0", "0", "0",
      IF c = 1 THEN "0" ELSE IF c = 2 THEN "00" ELSE "255">>

\* the IPv4 address a candidate stands for: its four numbers
AddressOf(c) ==
    IF c <= 3 THEN [i \in 1..4 |-> IntValue(Spelling(c)[i])]
    ELSE <<0, 0, 1, c>>

\* the lists of the stages, from the last to the first
StageLists ==
    <<run.bandwidth_results, run.tcp_ping_ips, run.latency_filtered_ips,
      run.filtered_ips, run.unique_ips>>

Narrows ==
    \A j \in 1..(Len(StageLists) - 1) : StageLists[j] \subseteq StageLists[j + 1]

\* C28: every stage's list is part of the list of the stage before it, and
\* no list holds one address twice.
C28_PipelineOnlyNarrows ==
    /\ Narrows
    /\ \A j \in 1..Len(StageLists) :
          \A c, d \in StageLists[j] :
              c # d => AddressOf(c) # AddressOf(d)

-----------------------------------------------------------------------------
(* Properties of calculate_score: monotonicity *)

\* C29: with the other arguments of a call held fixed, a higher min_delay
\* never gives a higher score, a higher bandwidth or stability never gives
\* a lower score, and another avg_delay gives the same score.
C29_ScoreMonotone ==
    score_call.called =>
        LET c == score_call.in
            out == score_call.out
        IN  /\ \A d \in Delays :
                  d >= c.min_delay =>
                      calculate_score(d, c.avg_delay, c.bandwidth,
                                      c.stability) <= out
            /\ \A b \in Bandwidths :
                  b >= c.bandwidth =>
                      calculate_score(c.min_delay, c.avg_delay, b,
                                      c.stability) >= out
            /\ \A st \in Stabilities :
                  st >= c.stability =>
                      calculate_score(c.min_delay, c.avg_delay, c.bandwidth,
                                      st) >= out
            /\ \A a \in AvgDelays :
                  calculate_score(c.min_delay, a, c.bandwidth, c.stability)
                      = out

\* a call on the sloped parts of the delay and bandwidth scores: 400 ms,
\* 4.99 Mbps, stability 99 gives 54.7; 5 Mbps gives the same rounded score,
\* and a longer delay, 10 Mbps or stability 100 change it in their direction
C29_Witness ==
    /\ score_call.called
    /\ score_call.in.min_delay = 400
    /\ score_call.in.bandwidth = 499
    /\ score_call.in.stability = 99
    /\ score_call.out = 547
    /\ calculate_score(499, 400, 499, 99) < score_call.out
    /\ calculate_score(400, 400, 500, 99) = score_call.out
    /\ calculate_score(400, 400, 1000, 99) > score_call.out
    /\ calculate_score(400, 400, 499, 100) > score_call.out

====
